---- MODULE Spec2Model ----
(***************************************************************************)
(* A model of the insurance agent's core: the payment-confirmation handler *)
(* (src/src/services/payment.service.ts), the message-processing cycle     *)
(* (src/src/services/agent.service.ts) and the premium rule engine         *)
(* (calculatePremium, src/src/index.ts).  Every await of the TypeScript    *)
(* source is a step boundary: two handlers interleave exactly there.       *)
(***************************************************************************)
EXTENDS Integers, Sequences, FiniteSets, TLC

\* ------------------------------------------------------------- bounds
MaxHandlers == 2
MaxCycles == 2
MaxQuotes == 2
MaxRules == 2

Handlers == 1..MaxHandlers
Cycles == 1..MaxCycles
QuoteIds == 1..MaxQuotes
\* session.metadata?.quoteId is undefined
NoQuoteId == 0
Addrs == {"a1"}
Null == "null"
CustomerName == "Ann"

VARIABLES
  quotes,         \* table Quote: id -> row (status "none": no such row)
  users,          \* table User, keyed by whatsappId
  conversations,  \* table Conversation, one per user
  products,       \* table InsuranceProduct, keyed by its unique type
  hs,             \* one record per Stripe webhook request
  cs,             \* one record per inbound WhatsApp message (processMessage)
  calc            \* the last direct call of calculatePremium and its result

vars == <<quotes, users, conversations, products, hs, cs, calc>>

\* ------------------------------------------------------------- storage
\* A details object without any fact in it
NoDetails == [k \in {"driverAge", "carYear"} |-> [present |-> FALSE, value |-> 0]]
NoQuote == [status |-> "none", userId |-> Null, type |-> Null,
            premium |-> [n |-> 0, d |-> 1], details |-> NoDetails]
\* rows: how many User rows carry this whatsappId (User_whatsappId_key allows one)
NoUser == [exists |-> FALSE, rows |-> 0, whatsappId |-> Null, fullName |-> Null]
\* rows: how many Conversation rows belong to the user (Conversation_userId_key)
NoConversation == [exists |-> FALSE, rows |-> 0, history |-> <<>>]

\* "status" TEXT NOT NULL DEFAULT 'draft'
DefaultStatus == "draft"
\* status: 'quoted' at quote creation
QuotedStatus == "quoted"
\* The update writes the column default back instead of 'paid'.
PaidStatusReset == "draft"
\* data: { status: 'paid' }
PaidStatus == "paid"

NoRules == [hasBaseRate |-> FALSE, baseRate |-> [n |-> 0, d |-> 1],
            factorsIsArray |-> FALSE, factors |-> <<>>]
NoProduct ==
  [exists |-> FALSE, isActive |-> FALSE, requiredInputs |-> <<>>, pricingRules |-> NoRules]
Rules(base, factors) ==
  [hasBaseRate |-> TRUE, baseRate |-> base, factorsIsArray |-> TRUE, factors |-> factors]

\* prisma/seed.ts: driverAge lt 25 multiplies by 1.4
AgeFactor ==
  [key |-> "driverAge", condition |-> "lt", value |-> 25,
   modifier |-> [n |-> 14, d |-> 10], type |-> "multiply"]
\* prisma/seed.ts: the years in which the seed may have created the product row:
\* the year of the migration that adds the table, and the year after it. The
\* upsert has an empty update, so the row keeps the value of its first seeding.
SeedYears == {2025, 2026}
\* prisma/seed.ts: carYear lt (new Date().getFullYear() - 15) adds 10000, the
\* year being the one the seed ran in
CarYearFactor(year) ==
  [key |-> "carYear", condition |-> "lt", value |-> year - 15,
   modifier |-> [n |-> 10000, d |-> 1], type |-> "add"]
SeedRules(year) == Rules([n |-> 60000, d |-> 1], <<AgeFactor, CarYearFactor(year)>>)

\* prisma/seed.ts: the keys of requiredInputs, in the order of the array
SeedInputs == <<"driverFullName", "driverAge", "carMake", "carModel", "carYear">>

\* prisma/seed.ts: the motor product, active; no other product is seeded
SeedProduct(year) ==
  [exists |-> TRUE, isActive |-> TRUE, requiredInputs |-> SeedInputs,
   pricingRules |-> SeedRules(year)]
SeedProducts(year) ==
  [t \in {"motor", "travel"} |-> IF t = "motor" THEN SeedProduct(year) ELSE NoProduct]
\* The InsuranceProduct table after the seed has run, in one of the years
Seeded == \E year \in SeedYears : products = SeedProducts(year)

\* prisma.user.create({ data: { whatsappId } })
NewUser(a) == [exists |-> TRUE, rows |-> 1, whatsappId |-> a, fullName |-> Null]
\* prisma.conversation.create({ data: { userId: user.id, history: [] } })
NewConversation == [exists |-> TRUE, rows |-> 1, history |-> <<>>]

\* ------------------------------------------------------------- premium engine
\* A number as it is written in the seed, in a JSON column or in the arguments of
\* a tool call: the decimal numeral n/d, d > 0. What the code computes with is
\* the double it denotes.
Num(n) == [n |-> n, d |-> 1]

\* A natural number of any size: its digits to the base 2^13, the least
\* significant first, without leading zero digits; <<>> is 0.
Base == 8192
BaseBits == 13

Digit(a, i) == IF i <= Len(a) THEN a[i] ELSE 0

RECURSIVE BigTrim(_)
BigTrim(a) ==
  IF a = <<>> THEN <<>>
  ELSE IF a[Len(a)] = 0 THEN BigTrim(SubSeq(a, 1, Len(a) - 1))
  ELSE a

RECURSIVE BigOfInt(_)
BigOfInt(n) == IF n = 0 THEN <<>> ELSE <<n % Base>> \o BigOfInt(n \div Base)

RECURSIVE IntOfBig(_)
IntOfBig(a) == IF a = <<>> THEN 0 ELSE a[1] + Base * IntOfBig(Tail(a))

RECURSIVE BigAddFrom(_, _, _, _)
BigAddFrom(a, b, i, carry) ==
  IF i > Len(a) /\ i > Len(b)
  THEN (IF carry = 0 THEN <<>> ELSE <<carry>>)
  ELSE LET s == Digit(a, i) + Digit(b, i) + carry
       IN  <<s % Base>> \o BigAddFrom(a, b, i + 1, s \div Base)
BigAdd(a, b) == BigAddFrom(a, b, 1, 0)

\* a - b for a >= b
RECURSIVE BigSubFrom(_, _, _, _)
BigSubFrom(a, b, i, borrow) ==
  IF i > Len(a) THEN <<>>
  ELSE LET s == Digit(a, i) - Digit(b, i) - borrow
       IN  <<s % Base>> \o BigSubFrom(a, b, i + 1, IF s < 0 THEN 1 ELSE 0)
BigSub(a, b) == BigTrim(BigSubFrom(a, b, 1, 0))

\* -1, 0 or 1 as a is less than, equal to or greater than b
RECURSIVE BigCmpFrom(_, _, _)
BigCmpFrom(a, b, i) ==
  IF i = 0 THEN 0
  ELSE IF a[i] < b[i] THEN 0 - 1
  ELSE IF a[i] > b[i] THEN 1
  ELSE BigCmpFrom(a, b, i - 1)
BigCmp(a, b) ==
  IF Len(a) < Len(b) THEN 0 - 1
  ELSE IF Len(a) > Len(b) THEN 1
  ELSE BigCmpFrom(a, b, Len(a))

\* a * k for a small k
RECURSIVE BigMulSmallFrom(_, _, _, _)
BigMulSmallFrom(a, k, i, carry) ==
  IF i > Len(a) THEN (IF carry = 0 THEN <<>> ELSE <<carry>>)
  ELSE LET p == a[i] * k + carry
       IN  <<p % Base>> \o BigMulSmallFrom(a, k, i + 1, p \div Base)
BigMulSmall(a, k) == IF k = 0 THEN <<>> ELSE BigMulSmallFrom(a, k, 1, 0)

RECURSIVE BigMulFrom(_, _, _)
BigMulFrom(a, b, i) ==
  IF i > Len(b) THEN <<>>
  ELSE BigAdd(BigMulSmall(a, b[i]), <<0>> \o BigMulFrom(a, b, i + 1))
BigMul(a, b) == BigTrim(BigMulFrom(a, b, 1))

\* quotient and remainder of a by a small k
RECURSIVE BigDivSmall(_, _)
BigDivSmall(a, k) ==
  IF a = <<>> THEN [q |-> <<>>, r |-> 0]
  ELSE LET high == BigDivSmall(Tail(a), k)
           cur == high.r * Base + a[1]
       IN  [q |-> <<cur \div k>> \o high.q, r |-> cur % k]

RECURSIVE Pow2(_)
Pow2(r) == IF r = 0 THEN 1 ELSE 2 * Pow2(r - 1)

Zeros(q) == [i \in 1..q |-> 0]
\* a * 2^s
ShiftLeft(a, s) ==
  IF a = <<>> THEN <<>>
  ELSE Zeros(s \div BaseBits) \o BigMulSmall(a, Pow2(s % BaseBits))
\* a \div 2^s
ShiftRight(a, s) ==
  IF s \div BaseBits >= Len(a) THEN <<>>
  ELSE BigTrim(BigDivSmall(SubSeq(a, s \div BaseBits + 1, Len(a)), Pow2(s % BaseBits)).q)

RECURSIVE BitLength(_)
BitLength(n) == IF n = 0 THEN 0 ELSE 1 + BitLength(n \div 2)
BigBitLength(a) ==
  IF a = <<>> THEN 0 ELSE BaseBits * (Len(a) - 1) + BitLength(a[Len(a)])

RECURSIVE TrailingZeros(_)
TrailingZeros(n) == IF n % 2 = 1 THEN 0 ELSE 1 + TrailingZeros(n \div 2)
RECURSIVE BigTrailingZeros(_)
BigTrailingZeros(a) ==
  IF a[1] = 0 THEN BaseBits + BigTrailingZeros(Tail(a)) ELSE TrailingZeros(a[1])

\* An IEEE 754 binary64 number (-1)^neg * m * 2^e that is finite and normal: m
\* is odd and below 2^53, or 0. Infinities, NaN, subnormals and the sign of
\* zero are left out: a premium is nowhere near them.
DoubleZero == [neg |-> FALSE, m |-> <<>>, e |-> 0]
Canonical(neg, m, e) ==
  IF m = <<>> THEN DoubleZero
  ELSE LET z == BigTrailingZeros(m)
       IN  [neg |-> neg, m |-> ShiftRight(m, z), e |-> e + z]

\* m * 2^e rounded to 53 significant bits, to nearest, a tie to the even one
RoundToDouble(neg, m, e) ==
  LET s == BigBitLength(m) - 53 IN
  IF s <= 0 THEN Canonical(neg, m, e)
  ELSE LET q == ShiftRight(m, s)
           rest == BigSub(m, ShiftLeft(q, s))
           c == BigCmp(rest, ShiftLeft(<<1>>, s - 1))
           up == c > 0 \/ (c = 0 /\ q[1] % 2 = 1)
       IN  Canonical(neg, IF up THEN BigAdd(q, <<1>>) ELSE q, e + s)

Abs(n) == IF n < 0 THEN 0 - n ELSE n

\* The double a JSON or source numeral n/d denotes: the one nearest to it. The
\* quotient is taken with 66 bits behind the binary point and one sticky bit.
Double(x) ==
  IF x.d = 1 THEN RoundToDouble(x.n < 0, BigOfInt(Abs(x.n)), 0)
  ELSE LET bits == 66 + BitLength(x.d)
           div == BigDivSmall(ShiftLeft(BigOfInt(Abs(x.n)), bits), x.d)
           sticky == IF div.r = 0 THEN <<>> ELSE <<1>>
       IN  RoundToDouble(x.n < 0, BigAdd(BigMulSmall(BigTrim(div.q), 2), sticky),
                         0 - bits - 1)

\* A multiplication that leaves the running total as it is.
NumMulDropped(x, y) == x
\* finalPremium *= factor.modifier
NumMul(x, y) == RoundToDouble(x.neg # y.neg, BigMul(x.m, y.m), x.e + y.e)

\* finalPremium += factor.modifier
NumAdd(x, y) ==
  LET e == IF x.e < y.e THEN x.e ELSE y.e
      a == ShiftLeft(x.m, x.e - e)
      b == ShiftLeft(y.m, y.e - e)
      c == BigCmp(a, b)
  IN  IF x.neg = y.neg THEN RoundToDouble(x.neg, BigAdd(a, b), e)
      ELSE IF c >= 0 THEN RoundToDouble(x.neg, BigSub(a, b), e)
      ELSE RoundToDouble(y.neg, BigSub(b, a), e)

\* The whole part of |x| and how what is left compares with one half
Parts(x) ==
  IF x.e >= 0 THEN [whole |-> IntOfBig(ShiftLeft(x.m, x.e)), half |-> 0 - 1, exact |-> TRUE]
  ELSE LET w == ShiftRight(x.m, 0 - x.e)
           rest == BigSub(x.m, ShiftLeft(w, 0 - x.e))
       IN  [whole |-> IntOfBig(w),
            half |-> BigCmp(rest, ShiftLeft(<<1>>, 0 - x.e - 1)),
            exact |-> rest = <<>>]

\* Math.floor in the place of Math.round
MathFloor(x) ==
  LET p == Parts(x) IN
  IF ~x.neg THEN p.whole ELSE 0 - (p.whole + (IF p.exact THEN 0 ELSE 1))

\* Math.round: the nearest integer, a tie going up (towards +Infinity)
MathRound(x) ==
  LET p == Parts(x) IN
  IF ~x.neg THEN p.whole + (IF p.half >= 0 THEN 1 ELSE 0)
  ELSE 0 - (p.whole + (IF p.half > 0 THEN 1 ELSE 0))

FactKeys == {"driverAge", "carYear"}
\* details[factor.key] === undefined
Undefined == [present |-> FALSE, value |-> 0]
Fact(v) == [present |-> TRUE, value |-> v]

\* The comparison with 'lt' and 'gt' taken for each other.
ConditionMetFlipped(condition, userValue, value) ==
  CASE condition = "lt" -> userValue > value
    [] condition = "gt" -> userValue < value
    [] condition = "eq" -> userValue = value
    [] OTHER -> FALSE

\* The factor's comparison of the user's value with factor.value
ConditionMet(condition, userValue, value) ==
  CASE condition = "lt" -> userValue < value
    [] condition = "gt" -> userValue > value
    [] condition = "eq" -> userValue = value
    [] OTHER -> FALSE

\* An iteration that applies the modifier of every factor whose fact is supplied.
ApplyFactorUnconditional(factor, details, finalPremium) ==
  IF ~details[factor.key].present THEN finalPremium
  ELSE IF factor.type = "multiply" THEN NumMul(finalPremium, Double(factor.modifier))
  ELSE IF factor.type = "add" THEN NumAdd(finalPremium, Double(factor.modifier))
  ELSE finalPremium

\* An iteration that reads a missing fact as 0 instead of skipping the factor.
ApplyFactorAbsentAsZero(factor, details, finalPremium) ==
  LET userValue == IF details[factor.key].present THEN details[factor.key].value ELSE 0 IN
  IF ~ConditionMet(factor.condition, userValue, factor.value) THEN finalPremium
  ELSE IF factor.type = "multiply" THEN NumMul(finalPremium, Double(factor.modifier))
  ELSE IF factor.type = "add" THEN NumAdd(finalPremium, Double(factor.modifier))
  ELSE finalPremium

\* One iteration of for (const factor of rules.factors)
ApplyFactor(factor, details, finalPremium) ==
  LET userValue == details[factor.key] IN
  IF ~userValue.present THEN finalPremium
  ELSE IF ~ConditionMet(factor.condition, userValue.value, factor.value) THEN finalPremium
  ELSE IF factor.type = "multiply" THEN NumMul(finalPremium, Double(factor.modifier))
  ELSE IF factor.type = "add" THEN NumAdd(finalPremium, Double(factor.modifier))
  ELSE finalPremium

\* The loop run from the last factor to the first.
RECURSIVE ApplyFactorsReversed(_, _, _, _)
ApplyFactorsReversed(factors, details, i, finalPremium) ==
  IF i > Len(factors) THEN finalPremium
  ELSE ApplyFactor(factors[i], details,
                   ApplyFactorsReversed(factors, details, i + 1, finalPremium))

\* The loop over rules.factors from index i on, in array order
RECURSIVE ApplyFactors(_, _, _, _)
ApplyFactors(factors, details, i, finalPremium) ==
  IF i > Len(factors) THEN finalPremium
  ELSE ApplyFactors(factors, details, i + 1, ApplyFactor(factors[i], details, finalPremium))

PremiumResult(p) == [ok |-> TRUE, premium |-> p, error |-> Null]
ErrorResult(e) == [ok |-> FALSE, premium |-> 0, error |-> e]

\* Pricing rules used without a look at their shape.
MalformedUnchecked(rules) == FALSE
\* !rules || typeof rules.baseRate !== 'number' || !Array.isArray(rules.factors)
Malformed(rules) == ~rules.hasBaseRate \/ ~rules.factorsIsArray

\* calculatePremium on the product row the lookup returned
CalculatePremium(product, details) ==
  IF ~product.exists \/ ~product.isActive
  THEN ErrorResult("Invalid insurance type specified.")
  ELSE IF Malformed(product.pricingRules)
  THEN ErrorResult("Pricing rules are not configured correctly for this product.")
  ELSE PremiumResult(MathRound(
         ApplyFactors(product.pricingRules.factors, details, 1,
                      Double(product.pricingRules.baseRate))))

\* catch (error): whatever is thrown inside the try block becomes an error value
UnexpectedError == ErrorResult("An unexpected error occurred during premium calculation.")

\* The fact maps a call may carry: each fact absent or one of a few values
DriverAges == {Undefined, Fact(22), Fact(30), Fact(70)}
CarYears == {Undefined, Fact(2008), Fact(2010), Fact(2020)}
DetailMaps == {[k \in FactKeys |-> IF k = "driverAge" THEN a ELSE y] :
                 a \in DriverAges, y \in CarYears}

\* ------------------------------------------------------------- webhook handler
IdleHandler ==
  [pc |-> "idle", sig |-> Null, type |-> Null, qid |-> NoQuoteId,
   quote |-> NoQuote, hist |-> <<>>, log |-> <<>>, outcome |-> Null,
   dbError |-> FALSE, err |-> Null, resp |-> 0]

SignatureFailed == "Webhook signature verification failed."
ProcessingError == "Processing error for quote."

\* The handler is over: its locals are gone and the controller answers.
Return(rec, code) ==
  [rec EXCEPT !.pc = "done", !.resp = code, !.quote = NoQuote, !.hist = <<>>]
\* return { received: true }; the controller answers res.status(200)
Received(rec) == Return(rec, 200)
\* throw new Error(message); the controller's catch answers res.status(400)
Throw(rec, message) == Return([rec EXCEPT !.err = message], 400)
\* An awaited prisma call rejects; catch (dbError) logs it and throws
\* new Error(`Processing error for quote ${quoteId}.`)
Rejected(rec) == Throw([rec EXCEPT !.dbError = TRUE], ProcessingError)
Effect(rec, e) == [rec EXCEPT !.log = Append(@, e)]


\* The event is parsed without its signature being checked.
SignatureUnchecked(sig) == TRUE
\* stripe.webhooks.constructEvent(rawBody, sig, secret) succeeds
SignatureVerified(sig) == sig = "good"

\* What a client can post: a payload (an event of some type, a completed checkout
\* naming a quote in its metadata or not) without a signature header, with a
\* signature that does not verify, or with Stripe's signature.
Requests ==
  {[sig |-> s, type |-> "payment_intent.created", qid |-> NoQuoteId] :
     s \in {"missing", "bad", "good"}}
  \cup {[sig |-> s, type |-> "checkout.session.completed", qid |-> q] :
          s \in {"missing", "bad", "good"}, q \in QuoteIds \cup {NoQuoteId}}

\* stripeWebhookHandler up to the first await of handleStripeWebhook. The event
\* (type, metadata) exists only once constructEvent has verified the signature.
\* Requests are numbered in their order of arrival.
StripeWebhookHandler(h) ==
  /\ hs[h].pc = "idle"
  /\ \A g \in Handlers : g < h => hs[g].pc # "idle"
  /\ \E req \in Requests :
       LET unparsed == [hs[h] EXCEPT !.sig = req.sig]
           event == [unparsed EXCEPT !.type = req.type, !.qid = req.qid]
       IN  hs' = [hs EXCEPT ![h] =
             IF req.sig = "missing" THEN Return(unparsed, 400)
             ELSE IF ~SignatureVerified(req.sig) THEN Throw(unparsed, SignatureFailed)
             ELSE IF req.type # "checkout.session.completed" THEN Received(event)
             ELSE IF req.qid = NoQuoteId THEN Received(event)
             ELSE [event EXCEPT !.pc = "findQuote"]]
  /\ UNCHANGED <<quotes, users, conversations, products, cs, calc>>

\* The guard without its quote.status === 'paid' disjunct.
AlreadyProcessedNoPaid(q) ==
  \/ q.status = "none"
  \/ ~users[q.userId].exists
\* !quote || !quote.user || quote.status === 'paid'
AlreadyProcessed(q) ==
  \/ q.status = "none"
  \/ ~users[q.userId].exists
  \/ q.status = "paid"

\* The lookup that raises on a quote it does not find or finds paid.
FindQuoteStrict(h) ==
  /\ hs[h].pc = "findQuote"
  /\ \E dbOk \in BOOLEAN :
       LET q == quotes[hs[h].qid] IN
       hs' = [hs EXCEPT ![h] =
               IF ~dbOk THEN Rejected(hs[h])
               ELSE IF AlreadyProcessed(q) THEN Throw(hs[h], ProcessingError)
               ELSE [hs[h] EXCEPT !.pc = "updateQuote", !.quote = q]]
  /\ UNCHANGED <<quotes, users, conversations, products, cs, calc>>

\* prisma.quote.findUnique and the idempotency check on its result.
FindQuote(h) ==
  /\ hs[h].pc = "findQuote"
  /\ \E dbOk \in BOOLEAN :
       LET q == quotes[hs[h].qid] IN
       hs' = [hs EXCEPT ![h] =
               IF ~dbOk THEN Rejected(hs[h])
               ELSE IF AlreadyProcessed(q) THEN Received(hs[h])
               ELSE [hs[h] EXCEPT !.pc = "updateQuote", !.quote = q]]
  /\ UNCHANGED <<quotes, users, conversations, products, cs, calc>>

\* An update by customer: where: { userId } in the place of where: { id }.
UpdateQuoteOfUser(h) ==
  /\ hs[h].pc = "updateQuote"
  /\ \E dbOk \in BOOLEAN :
       IF dbOk /\ quotes[hs[h].qid].status # "none"
       THEN LET userWhatsappId == users[hs[h].quote.userId].whatsappId IN
            /\ quotes' = [q \in QuoteIds |->
                            IF quotes[q].status # "none"
                               /\ quotes[q].userId = hs[h].quote.userId
                            THEN [quotes[q] EXCEPT !.status = PaidStatus]
                            ELSE quotes[q]]
            /\ hs' = [hs EXCEPT ![h] =
                 IF userWhatsappId # Null
                 THEN Effect([hs[h] EXCEPT !.pc = "sendConfirmation"], "paid")
                 ELSE Received(Effect(hs[h], "paid"))]
       ELSE /\ hs' = [hs EXCEPT ![h] = Rejected(hs[h])]
            /\ UNCHANGED quotes
  /\ UNCHANGED <<users, conversations, products, cs, calc>>

\* An update whose rejection is swallowed: the handler carries on.
UpdateQuoteBestEffort(h) ==
  /\ hs[h].pc = "updateQuote"
  /\ \E dbOk \in BOOLEAN :
       IF dbOk /\ quotes[hs[h].qid].status # "none"
       THEN LET userWhatsappId == users[hs[h].quote.userId].whatsappId IN
            /\ quotes' = [quotes EXCEPT ![hs[h].qid].status = PaidStatus]
            /\ hs' = [hs EXCEPT ![h] =
                 IF userWhatsappId # Null
                 THEN Effect([hs[h] EXCEPT !.pc = "sendConfirmation"], "paid")
                 ELSE Received(Effect(hs[h], "paid"))]
       ELSE /\ hs' = [hs EXCEPT ![h].pc = "sendConfirmation"]
            /\ UNCHANGED quotes
  /\ UNCHANGED <<users, conversations, products, cs, calc>>

\* prisma.quote.update({ where: { id }, data: { status: 'paid' } })
UpdateQuote(h) ==
  /\ hs[h].pc = "updateQuote"
  /\ \E dbOk \in BOOLEAN :
       IF dbOk /\ quotes[hs[h].qid].status # "none"
       THEN LET userWhatsappId == users[hs[h].quote.userId].whatsappId IN
            /\ quotes' = [quotes EXCEPT ![hs[h].qid].status = PaidStatus]
            /\ hs' = [hs EXCEPT ![h] =
                 IF userWhatsappId # Null
                 THEN Effect([hs[h] EXCEPT !.pc = "sendConfirmation"], "paid")
                 ELSE Received(Effect(hs[h], "paid"))]
       ELSE /\ hs' = [hs EXCEPT ![h] = Rejected(hs[h])]
            /\ UNCHANGED quotes
  /\ UNCHANGED <<users, conversations, products, cs, calc>>

\* The handler going on to the system note without the confirmation message.
SendConfirmationSkipped(h) ==
  /\ hs[h].pc = "sendConfirmation"
  /\ hs' = [hs EXCEPT ![h].pc = "noteUserFind"]
  /\ UNCHANGED <<quotes, users, conversations, products, cs, calc>>

\* await sendWhatsAppMessage(userWhatsappId, successMessage): never raises.
SendConfirmation(h) ==
  /\ hs[h].pc = "sendConfirmation"
  /\ hs' = [hs EXCEPT ![h] = Effect([@ EXCEPT !.pc = "noteUserFind"], "confirm")]
  /\ UNCHANGED <<quotes, users, conversations, products, cs, calc>>

\* findOrCreateUserAndConversation(prisma, whatsappId), called by
\* addSystemMessageToConversation: one step for each awaited call, other
\* requests running in between. user.findUnique, then user.create when no row
\* was found; conversation.findUnique, then conversation.create when no row was
\* found; currentHistory is the history of the row found or created. An insert
\* is refused when the row exists by now. A call that rejects ends
\* addSystemMessageToConversation in its catch block, which only logs, and the
\* handler goes on to the certificate.
NoteLookupSteps ==
  {"noteUserFind", "noteUserCreate", "noteConversationFind", "noteConversationCreate"}

FindOrCreateUserAndConversation(h) ==
  /\ hs[h].pc \in NoteLookupSteps
  /\ LET a == hs[h].quote.userId
         pc == hs[h].pc
         caught == [hs EXCEPT ![h].pc = "certificate"]
     IN  \E dbOk \in BOOLEAN :
           /\ users' =
                IF pc = "noteUserCreate" /\ dbOk /\ users[a].rows = 0
                THEN [users EXCEPT ![a] = NewUser(a)]
                ELSE users
           /\ conversations' =
                IF pc = "noteConversationCreate" /\ dbOk /\ conversations[a].rows = 0
                THEN [conversations EXCEPT ![a] = NewConversation]
                ELSE conversations
           /\ hs' =
                CASE ~dbOk -> caught
                  [] dbOk /\ pc = "noteUserFind" ->
                       [hs EXCEPT ![h].pc = IF users[a].exists
                                            THEN "noteConversationFind"
                                            ELSE "noteUserCreate"]
                  [] dbOk /\ pc = "noteUserCreate" ->
                       IF users[a].rows = 0
                       THEN [hs EXCEPT ![h].pc = "noteConversationFind"]
                       ELSE caught
                  [] dbOk /\ pc = "noteConversationFind" ->
                       IF conversations[a].exists
                       THEN [hs EXCEPT ![h].pc = "noteWrite",
                                       ![h].hist = conversations[a].history]
                       ELSE [hs EXCEPT ![h].pc = "noteConversationCreate"]
                  [] dbOk /\ pc = "noteConversationCreate" ->
                       IF conversations[a].rows = 0
                       THEN [hs EXCEPT ![h].pc = "noteWrite",
                                       ![h].hist = NewConversation.history]
                       ELSE caught
  /\ UNCHANGED <<quotes, products, cs, calc>>

\* role 'model', text '(System Note: ...)'
SystemNote == "note"

\* A note put in front of the history it was read with.
AddSystemMessageWritePrepend(h) ==
  /\ hs[h].pc = "noteWrite"
  /\ LET a == hs[h].quote.userId IN
     \E dbOk \in BOOLEAN :
       IF dbOk
       THEN /\ conversations' =
                 [conversations EXCEPT ![a].history = <<SystemNote>> \o hs[h].hist]
            /\ hs' = [hs EXCEPT ![h] =
                 Effect([hs[h] EXCEPT !.pc = "certificate", !.hist = <<>>], "note")]
       ELSE /\ hs' = [hs EXCEPT ![h].pc = "certificate", ![h].hist = <<>>]
            /\ UNCHANGED conversations
  /\ UNCHANGED <<quotes, users, products, cs, calc>>

\* addSystemMessageToConversation: prisma.conversation.update with
\* [...currentHistory, systemMessage]; a failure is logged and swallowed.
AddSystemMessageWrite(h) ==
  /\ hs[h].pc = "noteWrite"
  /\ LET a == hs[h].quote.userId IN
     \E dbOk \in BOOLEAN :
       IF dbOk
       THEN /\ conversations' =
                 [conversations EXCEPT ![a].history = Append(hs[h].hist, SystemNote)]
            /\ hs' = [hs EXCEPT ![h] =
                 Effect([hs[h] EXCEPT !.pc = "certificate", !.hist = <<>>], "note")]
       ELSE /\ hs' = [hs EXCEPT ![h].pc = "certificate", ![h].hist = <<>>]
            /\ UNCHANGED conversations
  /\ UNCHANGED <<quotes, users, products, cs, calc>>

\* A catch block that only logs the failure.
SendDegradedOmitted(rec) == rec
\* catch (certError): the degraded-service message; nothing is rethrown
SendDegraded(rec) == Effect(rec, "degraded")

\* The fulfilment try block and its catch, one step for each awaited call.
\* Whatever is thrown inside the try block is caught by catch (certError).
CertificateFailed(rec) == [rec EXCEPT !.pc = "degraded", !.outcome = "certificateFailed"]

\* generateAndUploadCertificate(quote.id): prisma.quote.findUnique with its
\* user; it throws when the call rejects or finds no quote or no user.
CertificateQuoteFind(h) ==
  /\ hs[h].pc = "certificate"
  /\ \E dbOk \in BOOLEAN :
       LET q == quotes[hs[h].qid]
           started == Effect(hs[h], "certificate")
       IN  hs' = [hs EXCEPT ![h] =
                   IF dbOk /\ q.status # "none" /\ users[q.userId].exists
                   THEN [started EXCEPT !.pc = "pdfConvert"]
                   ELSE CertificateFailed(started)]
  /\ UNCHANGED <<quotes, users, conversations, products, cs, calc>>

\* axios.post to api.pdf.co: a temporary URL, or 'Failed to generate PDF via
\* external API.' is thrown
PdfConvert(h) ==
  /\ hs[h].pc = "pdfConvert"
  /\ \E ok \in BOOLEAN :
       hs' = [hs EXCEPT ![h] = IF ok THEN [hs[h] EXCEPT !.pc = "pdfDownload"]
                               ELSE CertificateFailed(hs[h])]
  /\ UNCHANGED <<quotes, users, conversations, products, cs, calc>>

\* axios.get of the temporary URL: when it fails the catch block returns the
\* temporary URL, which is sent as the certificate.
PdfDownload(h) ==
  /\ hs[h].pc = "pdfDownload"
  /\ \E ok \in BOOLEAN :
       hs' = [hs EXCEPT ![h].pc = IF ok THEN "upload" ELSE "sendDocument"]
  /\ UNCHANGED <<quotes, users, conversations, products, cs, calc>>

\* cloudinary.uploader.upload_stream: the promise is returned without await, so
\* its rejection leaves the function uncaught by the catch block around it.
CloudinaryUpload(h) ==
  /\ hs[h].pc = "upload"
  /\ \E ok \in BOOLEAN :
       hs' = [hs EXCEPT ![h] = IF ok THEN [hs[h] EXCEPT !.pc = "sendDocument"]
                               ELSE CertificateFailed(hs[h])]
  /\ UNCHANGED <<quotes, users, conversations, products, cs, calc>>

\* sendDocument(userWhatsappId, certificateUrl, ...): delivers, and the handler
\* returns { received: true }, or rethrows
SendDocument(h) ==
  /\ hs[h].pc = "sendDocument"
  /\ \E ok \in BOOLEAN :
       LET attempted == Effect(hs[h], "document") IN
       hs' = [hs EXCEPT ![h] =
               IF ok THEN Received([attempted EXCEPT !.outcome = "sent"])
               ELSE [attempted EXCEPT !.pc = "degraded", !.outcome = "documentFailed"]]
  /\ UNCHANGED <<quotes, users, conversations, products, cs, calc>>

\* catch (certError): await sendWhatsAppMessage(userWhatsappId, "We've confirmed
\* your payment, but ..."), which never raises; then return { received: true }
SendDegradedMessage(h) ==
  /\ hs[h].pc = "degraded"
  /\ hs' = [hs EXCEPT ![h] = Received(SendDegraded(hs[h]))]
  /\ UNCHANGED <<quotes, users, conversations, products, cs, calc>>

\* ------------------------------------------------------------- message cycle
ProductTypes == {"motor", "travel"}
ToolNames == {"calculate_premium", "generate_payment_link", "get_weather"}
NoCall == [name |-> Null, insuranceType |-> Null, premium |-> Num(0), details |-> NoDetails]

\* The premium and details arguments the dialogue model passes to
\* generate_payment_link: what calculate_premium answers for a driver of 22 with
\* a car of 2008 on the seeded rules, or a figure of its own for the same facts.
QuotedFacts == [k \in FactKeys |-> IF k = "driverAge" THEN Fact(22) ELSE Fact(2008)]
QuotedArgs == [premium |-> Num(94000), details |-> QuotedFacts]
InventedArgs == [premium |-> [n |-> 100001, d |-> 2], details |-> QuotedFacts]
PaymentLinkArgs == {QuotedArgs, InventedArgs}

\* const session = await stripe.checkout.sessions.create({ ... })
NoSession == [quoteId |-> NoQuoteId, unit_amount |-> 0]

\* let toolResult: { premium } | { error } | { url }
NoToolResult == [kind |-> Null, premium |-> 0, text |-> Null]
\* what calculatePremium resolved with, as the tool's result
PricingResult(r) ==
  IF r.ok THEN [kind |-> "premium", premium |-> r.premium, text |-> Null]
  ELSE [kind |-> "error", premium |-> 0, text |-> r.error]
\* return { url: session.url }
UrlResult == [kind |-> "url", premium |-> 0, text |-> "session.url"]
\* toolResult = { error: 'Unknown function' }
UnknownFunction == [kind |-> "error", premium |-> 0, text |-> "Unknown function"]

\* A text of the dialogue model, as the sequence of its phrases
Phrases == {"Hello", "Premium is", "premium is", "I cannot help", "i cannot help"}
MaxPhrases == 2
Texts == UNION {[1..n -> Phrases] : n \in 1..MaxPhrases}
PlainText == <<"Hello">>
NoText == <<>>

\* The characters of a text: its phrases with a blank in between
RECURSIVE Sentence(_, _)
Sentence(text, i) ==
  IF i > Len(text) THEN ""
  ELSE (IF i > 1 THEN " " ELSE "") \o text[i] \o Sentence(text, i + 1)

\* { role: 'model', parts: [{ text }] } in chat.getHistory()
ModelTurn(text) == "model: " \o Sentence(text, 1)

\* String.prototype.toLowerCase, phrase by phrase
LowerCase(phrase) ==
  CASE phrase = "Hello" -> "hello"
    [] phrase = "Premium is" -> "premium is"
    [] phrase = "I cannot help" -> "i cannot help"
    [] OTHER -> phrase
ToLowerCase(text) == [i \in DOMAIN text |-> LowerCase(text[i])]
\* String.prototype.includes, for a needle that is one phrase
Includes(text, needle) == \E i \in DOMAIN text : text[i] = needle

\* persona.service.ts: export const trustAndSafetyPrompt
TrustAndSafetyPrompt ==
  "I can only assist with inquiries related to insurance products offered by Ishimwe Insurance, including motor, travel, and health policies. Please let me know how I can help you with one of those today!"
UnderwritingNote ==
  "\n\n*Note: This quote is based on the details you provided and our standard underwriting rules.*"
RetryPrompt == "I'm sorry, I encountered an unexpected error. Could we please try that again?"

\* The post-processing with its two tests in the other order of precedence.
ApplyBusinessLogicNoteFirst(responseText) ==
  IF Includes(ToLowerCase(responseText), "premium is")
  THEN Sentence(responseText, 1) \o UnderwritingNote
  ELSE IF Includes(ToLowerCase(responseText), "i cannot help")
  THEN TrustAndSafetyPrompt
  ELSE Sentence(responseText, 1)

\* applyBusinessLogic(responseText)
ApplyBusinessLogic(responseText) ==
  LET finalMessage ==
        IF Includes(ToLowerCase(responseText), "premium is")
        THEN Sentence(responseText, 1) \o UnderwritingNote
        ELSE Sentence(responseText, 1)
  IN  IF Includes(ToLowerCase(responseText), "i cannot help")
      THEN TrustAndSafetyPrompt
      ELSE finalMessage

\* calls: the length of response.functionCalls(), read at lines 109-110 only
IdleCycle ==
  [pc |-> "idle", addr |-> Null, user |-> NoUser, keyword |-> FALSE, stored |-> <<>>,
   hist |-> <<>>, calls |-> 0, call |-> NoCall, toolResult |-> NoToolResult,
   quoteId |-> NoQuoteId, session |-> NoSession, text |-> NoText, sent |-> Null,
   log |-> <<>>]

CEffect(c, pc, e) == [cs EXCEPT ![c].pc = pc, ![c].calls = 0, ![c].log = Append(@, e)]
\* processMessage returns: its locals are gone.
CReturn(c, e) ==
  [cs EXCEPT ![c] = [IdleCycle EXCEPT !.pc = "done", !.addr = cs[c].addr,
                                      !.log = Append(cs[c].log, e)]]
\* sendWhatsAppMessage(whatsappId, message) as the last statement of processMessage
Sent(c, e, message) == [CReturn(c, e) EXCEPT ![c].sent = message]
\* catch (error) at the top level of processMessage: the locals of the try
\* block are out of scope, only whatsappId is left.
Catch(c) ==
  [cs EXCEPT ![c] = [IdleCycle EXCEPT !.pc = "catch", !.addr = cs[c].addr,
                                      !.log = cs[c].log]]

FreeQuoteIds == {q \in QuoteIds : quotes[q].status = "none"}
Creating == {c \in Cycles : cs[c].pc \in {"userUpdate", "productFind", "quoteCreate"}}

\* handleIncomingMessage hands one text message to processMessage
\* (await processMessage(userWhatsappId, userMessageText)); keywords tells
\* whether the text may, must or cannot mention 'motor' or 'car'.
ProcessMessageWith(c, keywords) ==
  /\ cs[c].pc = "idle"
  /\ \A d \in Cycles : d < c => cs[d].pc # "idle"
  /\ \E a \in Addrs, kw \in keywords :
       cs' = [cs EXCEPT ![c].pc = "userFind", ![c].addr = a, ![c].keyword = kw]
  /\ UNCHANGED <<quotes, users, conversations, products, hs, calc>>

ProcessMessage(c) == ProcessMessageWith(c, BOOLEAN)

\* let user = await prisma.user.findUnique({ where: { whatsappId } })
UserFindUnique(c) ==
  /\ cs[c].pc = "userFind"
  /\ \E dbOk \in BOOLEAN :
       cs' = IF ~dbOk THEN Catch(c)
             ELSE IF users[cs[c].addr].exists
             THEN [cs EXCEPT ![c].pc = "conversationFind", ![c].user = users[cs[c].addr]]
             ELSE [cs EXCEPT ![c].pc = "userCreate"]
  /\ UNCHANGED <<quotes, users, conversations, products, hs, calc>>

\* An insert into a User table without the unique index on whatsappId.
UserCreateUnchecked(c) ==
  /\ cs[c].pc = "userCreate"
  /\ LET a == cs[c].addr IN
     \E dbOk \in BOOLEAN :
       IF dbOk
       THEN /\ users' = [users EXCEPT ![a] = [NewUser(a) EXCEPT !.rows = users[a].rows + 1]]
            /\ cs' = [cs EXCEPT ![c].pc = "conversationFind", ![c].user = NewUser(a)]
       ELSE /\ cs' = Catch(c)
            /\ UNCHANGED users
  /\ UNCHANGED <<quotes, conversations, products, hs, calc>>

\* if (!user) { user = await prisma.user.create({ data: { whatsappId } }) }:
\* the insert is refused when a row with this whatsappId exists by now.
UserCreate(c) ==
  /\ cs[c].pc = "userCreate"
  /\ LET a == cs[c].addr IN
     \E dbOk \in BOOLEAN :
       IF dbOk /\ users[a].rows = 0
       THEN /\ users' = [users EXCEPT ![a] = NewUser(a)]
            /\ cs' = [cs EXCEPT ![c].pc = "conversationFind", ![c].user = NewUser(a)]
       ELSE /\ cs' = Catch(c)
            /\ UNCHANGED users
  /\ UNCHANGED <<quotes, conversations, products, hs, calc>>

\* let conversation = await prisma.conversation.findUnique({ where: { userId } });
\* const chatHistory = conversation.history
ConversationFindUnique(c) ==
  /\ cs[c].pc = "conversationFind"
  /\ \E dbOk \in BOOLEAN :
       cs' = IF ~dbOk THEN Catch(c)
             ELSE IF conversations[cs[c].addr].exists
             THEN [cs EXCEPT ![c].pc = "inject",
                             ![c].stored = conversations[cs[c].addr].history]
             ELSE [cs EXCEPT ![c].pc = "conversationCreate"]
  /\ UNCHANGED <<quotes, users, conversations, products, hs, calc>>

\* if (!conversation) { conversation = await prisma.conversation.create(...) }:
\* the insert is refused when the user has a conversation by now.
ConversationCreate(c) ==
  /\ cs[c].pc = "conversationCreate"
  /\ LET a == cs[c].addr IN
     \E dbOk \in BOOLEAN :
       IF dbOk /\ conversations[a].rows = 0
       THEN /\ conversations' = [conversations EXCEPT ![a] = NewConversation]
            /\ cs' = [cs EXCEPT ![c].pc = "inject", ![c].stored = NewConversation.history]
       ELSE /\ cs' = Catch(c)
            /\ UNCHANGED conversations
  /\ UNCHANGED <<quotes, users, products, hs, calc>>

\* JSON.stringify(motorProduct.requiredInputs), reduced to the keys of the inputs
RECURSIVE Join(_, _)
Join(keys, i) ==
  IF i > Len(keys) THEN ""
  ELSE (IF i > 1 THEN "," ELSE "") \o keys[i] \o Join(keys, i + 1)
JSONStringify(keys) == "[" \o Join(keys, 1) \o "]"

\* role 'model', text '(System Instruction: The user wants motor insurance. Your
\* goal is to collect the following pieces of information ...: ${requiredInputs}...)'
Instruction(requiredInputs) ==
  "(System Instruction: " \o JSONStringify(requiredInputs) \o ")"
\* history[0] of an empty array
Hole == "undefined"

\* [history[0], instruction, ...history.slice(1)]
WithInstruction(history, instruction) ==
  <<IF Len(history) > 0 THEN history[1] ELSE Hole, instruction>>
    \o (IF Len(history) > 1 THEN SubSeq(history, 2, Len(history)) ELSE <<>>)

\* An injection that needs a first turn to put the instruction behind.
InjectionAppliesBehindFirst(history, keyword) == Len(history) \in 1..2 /\ keyword
\* An injection on every message that names the product.
InjectionAppliesAlways(history, keyword) == keyword
\* history.length <= 2 && (message includes 'motor' || message includes 'car')
InjectionApplies(history, keyword) == Len(history) <= 2 /\ keyword

\* injectDynamicInstructions(prisma, chatHistory, userMessage): the product is
\* looked up only when the injection applies, and the lookup may reject.
InjectDynamicInstructions(c) ==
  /\ cs[c].pc = "inject"
  /\ \E dbOk \in BOOLEAN :
       /\ ~dbOk => InjectionApplies(cs[c].stored, cs[c].keyword)
       /\ cs' = IF ~dbOk THEN Catch(c)
                ELSE [cs EXCEPT ![c].pc = "startTurn", ![c].keyword = FALSE,
                                ![c].stored = <<>>,
                                ![c].hist =
                                  IF InjectionApplies(cs[c].stored, cs[c].keyword)
                                     /\ products["motor"].exists
                                  THEN WithInstruction(cs[c].stored,
                                         Instruction(products["motor"].requiredInputs))
                                  ELSE cs[c].stored]
  /\ UNCHANGED <<quotes, users, conversations, products, hs, calc>>

\* the most function calls one response of the dialogue model carries
MaxCalls == 2

\* An unknown name treated as a failure of the turn.
ToolStepThrowing(name) ==
  CASE name = "calculate_premium" -> "calculatePremium"
    [] name = "generate_payment_link" -> "userUpdate"
    [] OTHER -> "catch"

\* The tool step that follows the first response: call = functionCalls[0]
ToolStep(name) ==
  CASE name = "calculate_premium" -> "calculatePremium"
    [] name = "generate_payment_link" -> "userUpdate"
    [] OTHER -> "continueTurn"

\* model.startChat({ history }) and chat.sendMessage(userMessage): either
\* throws, or the reply comes with zero or more function calls, the first of
\* them for one of names; for a name that is no tool of ours toolResult is set
\* on the spot.
StartTurnWith(c, names, counts, linkArgs, texts) ==
  /\ cs[c].pc = "startTurn"
  /\ \/ cs' = Catch(c)
     \/ \E text \in texts :
          cs' = [cs EXCEPT ![c].pc = "persist",
                           ![c].text = text,
                           ![c].hist = cs[c].hist \o <<"user", ModelTurn(text)>>]
     \/ \E n \in counts, name \in names, type \in ProductTypes \cup {Null},
           args \in linkArgs \cup {NoCall} :
          /\ (type = Null) <=> (name \notin {"calculate_premium", "generate_payment_link"})
          /\ (args \in linkArgs) <=> (name = "generate_payment_link")
          /\ name = "generate_payment_link"
               => Cardinality(FreeQuoteIds) > Cardinality(Creating)
          /\ cs' = [cs EXCEPT
                     ![c].pc = ToolStep(name),
                     ![c].calls = n,
                     ![c].call = [name |-> name, insuranceType |-> type,
                                  premium |-> args.premium, details |-> args.details],
                     ![c].toolResult =
                        IF ToolStep(name) = "continueTurn" THEN UnknownFunction
                        ELSE NoToolResult,
                     ![c].hist = cs[c].hist \o <<"user", "functionCall">>]
  /\ UNCHANGED <<quotes, users, conversations, products, hs, calc>>

StartTurn(c) == StartTurnWith(c, ToolNames, 1..MaxCalls, PaymentLinkArgs, {PlainText})

\* prisma.user.update({ where: { id: user.id }, data: { fullName: args.customerName } })
UserUpdate(c) ==
  /\ cs[c].pc = "userUpdate"
  /\ \E dbOk \in BOOLEAN :
       IF dbOk
       THEN /\ users' = [users EXCEPT ![cs[c].addr].fullName = CustomerName]
            /\ cs' = CEffect(c, "productFind", "userUpdate")
       ELSE /\ cs' = Catch(c)
            /\ UNCHANGED users
  /\ UNCHANGED <<quotes, conversations, products, hs, calc>>

\* prisma.insuranceProduct.findUnique({ where: { type } }); if (!product) throw
ProductFound(type) == products[type].exists

ProductFind(c) ==
  /\ cs[c].pc = "productFind"
  /\ \E dbOk \in BOOLEAN :
       cs' = IF dbOk /\ ProductFound(cs[c].call.insuranceType)
             THEN [cs EXCEPT ![c].pc = "quoteCreate"]
             ELSE Catch(c)
  /\ UNCHANGED <<quotes, users, conversations, products, hs, calc>>

\* A quote created as already paid.
NewQuotePaid(c) ==
  [status |-> PaidStatus, userId |-> cs[c].addr, type |-> cs[c].call.insuranceType,
   premium |-> cs[c].call.premium, details |-> cs[c].call.details]
\* prisma.quote.create({ data: { userId, insuranceProductId, type,
\* status: 'quoted', premium: args.premium, details: args.details } })
NewQuote(c) ==
  [status |-> QuotedStatus, userId |-> cs[c].addr, type |-> cs[c].call.insuranceType,
   premium |-> cs[c].call.premium, details |-> cs[c].call.details]

QuoteCreate(c) ==
  /\ cs[c].pc = "quoteCreate"
  /\ FreeQuoteIds # {}
  /\ \E dbOk \in BOOLEAN :
       IF dbOk
       THEN LET id == CHOOSE q \in FreeQuoteIds : \A r \in FreeQuoteIds : q <= r IN
            /\ quotes' = [quotes EXCEPT ![id] = NewQuote(c)]
            /\ cs' = [CEffect(c, "createCheckout", "quoteCreate") EXCEPT ![c].quoteId = id]
       ELSE /\ cs' = Catch(c)
            /\ UNCHANGED quotes
  /\ UNCHANGED <<users, conversations, products, hs, calc>>

\* The session asked of Stripe: price_data.unit_amount: Math.round(premium),
\* metadata: { quoteId }
CheckoutSession(quoteId, premium) ==
  [quoteId |-> quoteId, unit_amount |-> MathRound(Double(premium))]

\* A failed checkout that deletes the quote it was for.
CreateStripeCheckoutSessionRollback(c) ==
  /\ cs[c].pc = "createCheckout"
  /\ \E ok \in BOOLEAN :
       IF ok
       THEN /\ cs' = [CEffect(c, "continueTurn", "checkout") EXCEPT
                        ![c].toolResult = UrlResult,
                        ![c].session = CheckoutSession(cs[c].quoteId, cs[c].call.premium)]
            /\ UNCHANGED quotes
       ELSE cs' = Catch(c) /\ quotes' = [quotes EXCEPT ![cs[c].quoteId] = NoQuote]
  /\ UNCHANGED <<users, conversations, products, hs, calc>>

\* createStripeCheckoutSession({ quoteId, premium, customerName }): a URL, or it throws
CreateStripeCheckoutSession(c) ==
  /\ cs[c].pc = "createCheckout"
  /\ \E ok \in BOOLEAN :
       cs' = IF ok
             THEN [CEffect(c, "continueTurn", "checkout") EXCEPT
                     ![c].toolResult = UrlResult,
                     ![c].session = CheckoutSession(cs[c].quoteId, cs[c].call.premium)]
             ELSE Catch(c)
  /\ UNCHANGED <<quotes, users, conversations, products, hs, calc>>

\* A tool that keeps the premium it computed as the product's new base rate.
CalculatePremiumToolCaching(c) ==
  /\ cs[c].pc = "calculatePremium"
  /\ \E details \in DetailMaps :
       LET type == cs[c].call.insuranceType
           r == CalculatePremium(products[type], details)
       IN  /\ cs' = [CEffect(c, "continueTurn", "calculatePremium") EXCEPT
                       ![c].toolResult = PricingResult(r)]
           /\ products' = IF r.ok
                          THEN [products EXCEPT ![type].pricingRules.baseRate =
                                                   Num(r.premium)]
                          ELSE products
  /\ UNCHANGED <<quotes, users, conversations, hs, calc>>

\* toolResult = await calculatePremium({ insuranceType, details }): the
\* engine's answer for the product row as it is now; it reads, never writes,
\* and turns a rejected lookup into an error value.
CalculatePremiumTool(c) ==
  /\ cs[c].pc = "calculatePremium"
  /\ \E details \in DetailMaps, dbOk \in BOOLEAN :
       cs' = [CEffect(c, "continueTurn", "calculatePremium") EXCEPT
                ![c].toolResult =
                   PricingResult(IF dbOk
                                 THEN CalculatePremium(
                                        products[cs[c].call.insuranceType], details)
                                 ELSE UnexpectedError)]
  /\ UNCHANGED <<quotes, users, conversations, products, hs, calc>>

\* A second model call whose failure is answered by saving the turns so far.
ContinueTurnSavingPartial(c) ==
  /\ cs[c].pc = "continueTurn"
  /\ \E ok \in BOOLEAN :
       IF ok
       THEN /\ cs' = [cs EXCEPT
                       ![c].pc = "persist",
                       ![c].calls = 0,
                       ![c].toolResult = NoToolResult,
                       ![c].session = NoSession,
                       ![c].text = PlainText,
                       ![c].hist = cs[c].hist \o <<"functionResponse", ModelTurn(PlainText)>>]
            /\ UNCHANGED conversations
       ELSE /\ cs' = Catch(c)
            /\ conversations' = [conversations EXCEPT ![cs[c].addr].history = cs[c].hist]
  /\ UNCHANGED <<quotes, users, products, hs, calc>>

\* chat.sendMessage([{ functionResponse: { name, response: toolResult } }]):
\* the final reply, or it throws
ContinueTurnWith(c, texts) ==
  /\ cs[c].pc = "continueTurn"
  /\ \E ok \in BOOLEAN, text \in texts :
       cs' = IF ok
             THEN [cs EXCEPT
                     ![c].pc = "persist",
                     ![c].calls = 0,
                     ![c].toolResult = NoToolResult,
                     ![c].session = NoSession,
                     ![c].text = text,
                     ![c].hist = cs[c].hist \o <<"functionResponse", ModelTurn(text)>>]
             ELSE Catch(c)
  /\ UNCHANGED <<quotes, users, conversations, products, hs, calc>>

ContinueTurn(c) == ContinueTurnWith(c, {PlainText})

\* A history update whose failure is ignored: the reply is sent all the same.
PersistHistoryBestEffort(c) ==
  /\ cs[c].pc = "persist"
  /\ \E dbOk \in BOOLEAN :
       IF dbOk
       THEN /\ conversations' = [conversations EXCEPT ![cs[c].addr].history = cs[c].hist]
            /\ cs' = [CEffect(c, "reply", "persist") EXCEPT ![c].hist = <<>>]
       ELSE /\ cs' = [cs EXCEPT ![c].pc = "reply", ![c].hist = <<>>]
            /\ UNCHANGED conversations
  /\ UNCHANGED <<quotes, users, products, hs, calc>>

\* A history update that rejects after it has written.
PersistHistoryTorn(c) ==
  /\ cs[c].pc = "persist"
  /\ conversations' = [conversations EXCEPT ![cs[c].addr].history = cs[c].hist]
  /\ \E dbOk \in BOOLEAN :
       cs' = IF dbOk THEN [CEffect(c, "reply", "persist") EXCEPT ![c].hist = <<>>]
             ELSE Catch(c)
  /\ UNCHANGED <<quotes, users, products, hs, calc>>

\* chat.getHistory() and prisma.conversation.update({ data: { history } })
PersistHistory(c) ==
  /\ cs[c].pc = "persist"
  /\ \E dbOk \in BOOLEAN :
       IF dbOk
       THEN /\ conversations' = [conversations EXCEPT ![cs[c].addr].history = cs[c].hist]
            /\ cs' = [CEffect(c, "reply", "persist") EXCEPT ![c].hist = <<>>]
       ELSE /\ cs' = Catch(c)
            /\ UNCHANGED conversations
  /\ UNCHANGED <<quotes, users, products, hs, calc>>

\* A send whose failure is raised to processMessage.
SendReplyThrowing(c) ==
  /\ cs[c].pc = "reply"
  /\ \E ok \in BOOLEAN :
       cs' = IF ok THEN Sent(c, "reply", ApplyBusinessLogic(cs[c].text))
             ELSE [Catch(c) EXCEPT ![c].log = Append(cs[c].log, "reply")]
  /\ UNCHANGED <<quotes, users, conversations, products, hs, calc>>

\* sendWhatsAppMessage(whatsappId, applyBusinessLogic(aiResponseText))
SendReply(c) ==
  /\ cs[c].pc = "reply"
  /\ cs' = Sent(c, "reply", ApplyBusinessLogic(cs[c].text))
  /\ UNCHANGED <<quotes, users, conversations, products, hs, calc>>

\* sendWhatsAppMessage(whatsappId, "I'm sorry, I encountered an unexpected error...")
SendRetryPrompt(c) ==
  /\ cs[c].pc = "catch"
  /\ cs' = Sent(c, "retryPrompt", RetryPrompt)
  /\ UNCHANGED <<quotes, users, conversations, products, hs, calc>>

\* ------------------------------------------------------------- premium calls
SeniorFactor ==
  [key |-> "driverAge", condition |-> "gt", value |-> 60,
   modifier |-> [n |-> 15, d |-> 10], type |-> "multiply"]
NewCarFactor ==
  [key |-> "carYear", condition |-> "eq", value |-> 2020,
   modifier |-> [n |-> 0 - 5000, d |-> 1], type |-> "add"]
FactorPool ==
  {AgeFactor, SeniorFactor, NewCarFactor} \cup {CarYearFactor(year) : year \in SeedYears}
BaseRates == {Num(60000), Num(5), Num(3)}

SeqsUpTo(S, n) == UNION {[1..k -> S] : k \in 0..n}
RuleSets == {Rules(b, fs) : b \in BaseRates, fs \in SeqsUpTo(FactorPool, MaxRules)}

\* The statuses of the Quote rows, as the database holds them when a call is made
NoStatuses == [q \in QuoteIds |-> "none"]
Statuses == [q \in QuoteIds |-> quotes[q].status]

\* No call has been made.
NoEvaluation ==
  [made |-> FALSE, insuranceType |-> Null, details |-> [k \in FactKeys |-> Undefined],
   dbError |-> FALSE, result |-> ErrorResult(Null), seen |-> NoStatuses]

IdleCalc ==
  [pc |-> "idle", insuranceType |-> Null, details |-> [k \in FactKeys |-> Undefined],
   dbError |-> FALSE, result |-> ErrorResult(Null), seen |-> NoStatuses,
   prev |-> NoEvaluation]

\* calculatePremium({ insuranceType, details }): the product lookup is answered
\* (dbOk) or rejects, and the rejection is caught.
Evaluation(type, details, dbOk) ==
  [made |-> TRUE, insuranceType |-> type, details |-> details, dbError |-> ~dbOk,
   result |-> IF dbOk THEN CalculatePremium(products[type], details)
              ELSE UnexpectedError,
   seen |-> Statuses]

\* The evaluation the variable calc holds, as a call record
LastEvaluation ==
  [made |-> calc.pc = "done", insuranceType |-> calc.insuranceType,
   details |-> calc.details, dbError |-> calc.dbError, result |-> calc.result,
   seen |-> calc.seen]

\* calc after the call e, the call before it being kept or not
Called(e, before) ==
  [pc |-> "done", insuranceType |-> e.insuranceType, details |-> e.details,
   dbError |-> e.dbError, result |-> e.result, seen |-> e.seen, prev |-> before]

\* A direct call calculatePremium({ insuranceType, details })
CalculatePremiumCall ==
  /\ \E type \in ProductTypes, details \in DetailMaps, dbOk \in BOOLEAN :
       calc' = Called(Evaluation(type, details, dbOk), NoEvaluation)
  /\ UNCHANGED <<quotes, users, conversations, products, hs, cs>>

\* The fact maps of the calls of a series: no fact, or the facts of scenario A
RepeatDetailMaps ==
  {d \in DetailMaps : \/ d["driverAge"] = Undefined /\ d["carYear"] = Undefined
                      \/ d["driverAge"] = Fact(22) /\ d["carYear"] = Fact(2008)}

\* The first call made stays remembered, to compare every later call with it.
FirstEvaluation == IF calc.prev.made THEN calc.prev ELSE LastEvaluation

\* A call that leaves its running total in the product row it read.
CalculatePremiumRepeatCaching ==
  \E type \in ProductTypes, details \in RepeatDetailMaps, dbOk \in BOOLEAN :
    LET e == Evaluation(type, details, dbOk) IN
    /\ calc' = Called(e, FirstEvaluation)
    /\ products' = IF e.result.ok
                   THEN [products EXCEPT ![type].pricingRules.baseRate =
                                            Num(e.result.premium)]
                   ELSE products
    /\ UNCHANGED <<quotes, users, conversations, hs, cs>>

\* A direct call in a series of calls
CalculatePremiumRepeat ==
  /\ \E type \in ProductTypes, details \in RepeatDetailMaps, dbOk \in BOOLEAN :
       calc' = Called(Evaluation(type, details, dbOk), FirstEvaluation)
  /\ UNCHANGED <<quotes, users, conversations, products, hs, cs>>

\* ------------------------------------------------------------- specification
\* Nothing is in flight.
InitProcesses ==
  /\ hs = [h \in Handlers |-> IdleHandler]
  /\ cs = [c \in Cycles |-> IdleCycle]
  /\ calc = IdleCalc

\* The tables User, Conversation and Quote after the migrations: no row
EmptyStore ==
  /\ quotes = [q \in QuoteIds |-> NoQuote]
  /\ users = [a \in Addrs |-> NoUser]
  /\ conversations = [a \in Addrs |-> NoConversation]

\* The database after the migrations and the seed, nothing in flight
Init ==
  /\ EmptyStore
  /\ Seeded
  /\ InitProcesses

WebhookStep(h) ==
  \/ FindQuote(h)
  \/ UpdateQuote(h)
  \/ SendConfirmation(h)
  \/ FindOrCreateUserAndConversation(h)
  \/ AddSystemMessageWrite(h)
  \/ CertificateQuoteFind(h)
  \/ PdfConvert(h)
  \/ PdfDownload(h)
  \/ CloudinaryUpload(h)
  \/ SendDocument(h)
  \/ SendDegradedMessage(h)

CycleStep(c) ==
  \/ ProcessMessage(c)
  \/ UserFindUnique(c)
  \/ UserCreate(c)
  \/ ConversationFindUnique(c)
  \/ ConversationCreate(c)
  \/ InjectDynamicInstructions(c)
  \/ StartTurn(c)
  \/ UserUpdate(c)
  \/ ProductFind(c)
  \/ QuoteCreate(c)
  \/ CreateStripeCheckoutSession(c)
  \/ CalculatePremiumTool(c)
  \/ ContinueTurn(c)
  \/ PersistHistory(c)
  \/ SendReply(c)
  \/ SendRetryPrompt(c)

\* The steps of a message cycle of a customer who is about to buy: the text
\* mentions no product, and the dialogue model answers with a plain reply or
\* asks for a payment link.
PaymentTurnStep(c) ==
  \/ ProcessMessageWith(c, {FALSE})
  \/ UserFindUnique(c)
  \/ UserCreate(c)
  \/ ConversationFindUnique(c)
  \/ ConversationCreate(c)
  \/ InjectDynamicInstructions(c)
  \/ StartTurnWith(c, {"generate_payment_link"}, {1}, {QuotedArgs}, {PlainText})
  \/ UserUpdate(c)
  \/ ProductFind(c)
  \/ QuoteCreate(c)
  \/ CreateStripeCheckoutSession(c)
  \/ ContinueTurn(c)
  \/ PersistHistory(c)
  \/ SendReply(c)
  \/ SendRetryPrompt(c)

\* A message is taken up when every earlier one has been answered.
NoCycleInFlight == \A d \in Cycles : cs[d].pc \in {"idle", "done"}

\* Two webhook requests that may overlap one another and the message cycles of
\* two purchases, the second message arriving after the first was answered.
PaymentCycles == {1}
Purchases == {1, 2}
PaymentHandlers == {1, 2}

Next ==
  \/ \E h \in PaymentHandlers : StripeWebhookHandler(h)
  \/ \E h \in PaymentHandlers : WebhookStep(h)
  \/ \E c \in Purchases : (cs[c].pc = "idle" => NoCycleInFlight) /\ PaymentTurnStep(c)

Spec == Init /\ [][Next]_vars

\* The same system when a webhook request arrives only after the previous one
\* has been answered.
NoHandlerInFlight == \A g \in Handlers : hs[g].pc \in {"idle", "done"}

SeqNext ==
  \/ \E h \in Handlers : NoHandlerInFlight /\ StripeWebhookHandler(h)
  \/ \E h \in Handlers : WebhookStep(h)
  \/ \E c \in PaymentCycles : PaymentTurnStep(c)

SeqSpec == Init /\ [][SeqNext]_vars

\* Message cycles alone, one after the other, on a database without customers.
SerialNext ==
  \E c \in Cycles : (cs[c].pc = "idle" => NoCycleInFlight) /\ CycleStep(c)

SerialSpec == Init /\ [][SerialNext]_vars

\* The same cycles on a catalogue that also holds a product taken off sale: the
\* travel product with isActive false.
RetiredProduct(year) == [SeedProduct(year) EXCEPT !.isActive = FALSE]

RetiredInit ==
  /\ EmptyStore
  /\ \E year \in SeedYears :
       products = [SeedProducts(year) EXCEPT !["travel"] = RetiredProduct(year)]
  /\ InitProcesses

RetiredSpec == RetiredInit /\ [][SerialNext]_vars

\* The Quote table admits a row in the status 'draft', the column default and
\* the first status of the lifecycle: a database in which customer a1, who has
\* a conversation, owns such a Quote, written by a client other than
\* processMessage, and payment events arrive for it.
DraftQuote == [status |-> DefaultStatus, userId |-> "a1", type |-> "motor",
               premium |-> QuotedArgs.premium, details |-> QuotedArgs.details]

DraftInit ==
  /\ quotes = [q \in QuoteIds |-> IF q = 1 THEN DraftQuote ELSE NoQuote]
  /\ users = [a \in Addrs |-> IF a = "a1" THEN NewUser(a) ELSE NoUser]
  /\ conversations = [a \in Addrs |-> IF a = "a1" THEN NewConversation ELSE NoConversation]
  /\ Seeded
  /\ InitProcesses

DraftNext ==
  \/ \E h \in Handlers : StripeWebhookHandler(h)
  \/ \E h \in Handlers : WebhookStep(h)

DraftSpec == DraftInit /\ [][DraftNext]_vars

\* Two message cycles that overlap: every inbound message is its own webhook
\* delivery, and handleIncomingMessage holds no lock and keeps no queue.
ChatCycles == {1, 2}

ChatNext == \E c \in ChatCycles : CycleStep(c)

ChatSpec == Init /\ [][ChatNext]_vars

\* Every awaited call of a cycle settles, with a value or an error, and the
\* continuation behind it is run: a cycle that has started is not left
\* waiting forever.
FairChatSpec ==
  /\ ChatSpec
  /\ \A c \in ChatCycles : WF_vars(cs[c].pc # "idle" /\ CycleStep(c))

\* One message and the payment events handled strictly one after the other, on
\* a database without customers: a request is taken up when nothing is in flight.
OneAtATimeNext ==
  \/ \E h \in Handlers : NoHandlerInFlight /\ NoCycleInFlight /\ StripeWebhookHandler(h)
  \/ \E h \in Handlers : WebhookStep(h)
  \/ \E c \in PaymentCycles :
       /\ cs[c].pc = "idle" => NoHandlerInFlight /\ NoCycleInFlight
       /\ CycleStep(c)

OneAtATimeSpec == Init /\ [][OneAtATimeNext]_vars

\* A customer who chats while a payment of theirs comes in: messages that may
\* name the product and are answered directly, after a tool that is none of
\* ours or after a payment link, overlapping each other and the handling of
\* one payment event.
ChatTurnStep(c) ==
  \/ ProcessMessage(c)
  \/ UserFindUnique(c)
  \/ UserCreate(c)
  \/ ConversationFindUnique(c)
  \/ ConversationCreate(c)
  \/ InjectDynamicInstructions(c)
  \/ StartTurnWith(c, {"get_weather", "generate_payment_link"}, {1}, {QuotedArgs},
                   {PlainText})
  \/ UserUpdate(c)
  \/ ProductFind(c)
  \/ QuoteCreate(c)
  \/ CreateStripeCheckoutSession(c)
  \/ ContinueTurn(c)
  \/ PersistHistory(c)
  \/ SendReply(c)
  \/ SendRetryPrompt(c)

NoteHandlers == {1}

NotedNext ==
  \/ \E h \in NoteHandlers : StripeWebhookHandler(h)
  \/ \E h \in NoteHandlers : WebhookStep(h)
  \/ \E c \in ChatCycles : ChatTurnStep(c)

NotedSpec == Init /\ [][NotedNext]_vars

\* One message of a new customer, answered directly or after a call of a tool
\* that is none of ours, with any text of the pool as the final reply.
ReplyStep(c) ==
  \/ ProcessMessage(c)
  \/ UserFindUnique(c)
  \/ UserCreate(c)
  \/ ConversationFindUnique(c)
  \/ ConversationCreate(c)
  \/ InjectDynamicInstructions(c)
  \/ StartTurnWith(c, {"get_weather"}, {1}, {}, Texts)
  \/ ContinueTurnWith(c, Texts)
  \/ PersistHistory(c)
  \/ SendReply(c)
  \/ SendRetryPrompt(c)

ReplyNext == \E c \in PaymentCycles : ReplyStep(c)

ReplySpec == Init /\ [][ReplyNext]_vars

\* Rows of InsuranceProduct for which calculatePremium must answer with an
\* error: no row, an inactive product, pricing rules without a numeric
\* baseRate, pricing rules whose factors are not an array.
BadProducts ==
  {NoProduct} \cup
  UNION {{[SeedProduct(year) EXCEPT !.isActive = FALSE],
          [SeedProduct(year) EXCEPT !.pricingRules.hasBaseRate = FALSE],
          [SeedProduct(year) EXCEPT !.pricingRules.factorsIsArray = FALSE]} :
         year \in SeedYears}

\* Direct calls of calculatePremium against every catalogue of the bounded pool:
\* a well-formed motor product and a travel product that cannot be priced.
PremiumInit ==
  /\ EmptyStore
  /\ InitProcesses
  /\ \E year \in SeedYears, rules \in RuleSets, bad \in BadProducts :
       products = [SeedProducts(year) EXCEPT !["motor"].pricingRules = rules,
                                             !["travel"] = bad]

\* One call in a run: the function is applied once to the inputs drawn
PremiumNext == calc.pc = "idle" /\ CalculatePremiumCall

PremiumSpec == PremiumInit /\ [][PremiumNext]_vars

\* Direct calls of calculatePremium on the seeded database, at any moment
\* while the other operations of the program run: a message cycle that may
\* create a Quote with its payment link, and the handling of a payment event,
\* both writing the tables between one call and the next.
RepeatNext ==
  \/ CalculatePremiumRepeat
  \/ \E h \in NoteHandlers : StripeWebhookHandler(h)
  \/ \E h \in NoteHandlers : WebhookStep(h)
  \/ \E c \in PaymentCycles : PaymentTurnStep(c)

RepeatSpec == Init /\ [][RepeatNext]_vars

\* ------------------------------------------------------------- properties
\* How often effect e occurs in a log
Count(log, e) == Cardinality({i \in DOMAIN log : log[i] = e})
\* The request of handler h was verified as a completed checkout naming quote q.
VerifiedFor(h, q) ==
  /\ hs[h].sig = "good"
  /\ hs[h].type = "checkout.session.completed"
  /\ hs[h].qid = q
\* How often effect e was performed for quote q, over all handlings
Total(q, e) ==
  Cardinality(UNION {{<<h, i>> : i \in {j \in DOMAIN hs[h].log : hs[h].log[j] = e}} :
                       h \in {g \in Handlers : hs[g].qid = q}})
\* The place of a status in the lifecycle draft -> quoted -> paid
LifecycleRank(s) ==
  CASE s = "none" -> 0
    [] s = "draft" -> 1
    [] s = "quoted" -> 2
    [] s = "paid" -> 3

\* C1: when the same verified checkout-completed event for a quote is handled
\* again after a handling that marked the quote paid has been answered, the
\* replay writes and sends nothing and is acknowledged, and over all handlings
\* the quote has one paid write, one confirmation and one fulfilment attempt.
ReplayIsIdempotent ==
  \A q \in QuoteIds : \A g, h \in Handlers :
    (/\ g < h
     /\ VerifiedFor(g, q) /\ VerifiedFor(h, q)
     /\ hs[g].pc = "done" /\ Count(hs[g].log, "paid") > 0)
    => /\ hs[h].pc \in {"findQuote", "done"}
       /\ hs[h].log = <<>>
       /\ (hs[h].pc = "done" /\ ~hs[h].dbError => hs[h].resp = 200 /\ hs[h].err = Null)
       /\ Total(q, "paid") = 1
       /\ Total(q, "confirm") = 1
       /\ Total(q, "certificate") = 1

\* A quote created as quoted, paid by the first handling, and a replay answered.
ReplayWitness ==
  /\ VerifiedFor(1, 1) /\ VerifiedFor(2, 1)
  /\ hs[1].pc = "done" /\ Count(hs[1].log, "paid") = 1
  /\ hs[2].pc = "done" /\ hs[2].resp = 200 /\ hs[2].log = <<>>
  /\ cs[1].pc = "done"

\* C2: however two handlings of verified events for the same quote, created as
\* quoted by a message cycle, overlap, the confirmation is sent at most once and
\* fulfilment is invoked at most once.
AtMostOnePaymentEffect ==
  \A q \in QuoteIds :
    Total(q, "confirm") <= 1 /\ Total(q, "certificate") <= 1

\* C3: the step that handles a request whose signature does not verify raises
\* the verification error, is answered 400, and leaves every table as it was;
\* the handler has then finished without any effect.
BadSignatureRejected ==
  [][\A h \in Handlers :
       (hs[h].pc = "idle" /\ hs'[h].sig = "bad")
       => /\ hs'[h].pc = "done"
          /\ hs'[h].resp = 400
          /\ hs'[h].err = "Webhook signature verification failed."
          /\ hs'[h].log = <<>>
          /\ quotes' = quotes
          /\ users' = users
          /\ conversations' = conversations]_vars

\* A forged event has been rejected while a quote waits for its payment.
BadSignatureWitness ==
  \E h \in Handlers :
    /\ hs[h].sig = "bad" /\ hs[h].pc = "done" /\ hs[h].resp = 400
    /\ quotes[1].status = "quoted"

StatusIsMonotonic ==
  [][\A q \in QuoteIds :
       /\ LifecycleRank(quotes'[q].status) >= LifecycleRank(quotes[q].status)
       /\ quotes[q].status = "paid" => quotes'[q].status = "paid"]_vars

\* Both quotes went through their lifecycle to paid, the second from its creation.
MonotonicWitness ==
  /\ quotes[1].status = "paid"
  /\ quotes[2].status = "paid"
  /\ \A h \in Handlers : hs[h].pc = "done"

\* C6: a paid quote has a handling of a verified checkout-completed event naming
\* it that performed the paid write; no other step makes a quote paid.
PaidOnlyByVerifiedEvent ==
  \A q \in QuoteIds :
    quotes[q].status = "paid"
    => \E h \in Handlers : VerifiedFor(h, q) /\ Count(hs[h].log, "paid") > 0

\* A quote created by a message cycle that went on to its checkout session has
\* been paid by a verified event.
PaidByEventWitness ==
  /\ quotes[1].status = "paid"
  /\ cs[1].pc = "done" /\ Count(cs[1].log, "checkout") = 1
  /\ \E h \in Handlers : VerifiedFor(h, 1) /\ Count(hs[h].log, "paid") = 1

\* C7: when the lookup of a verified event's quote is answered and finds no quote,
\* a paid quote, or a quote without its user, the handling ends there:
\* acknowledged with 200, no error, no effect, every table as it was.
NothingToDoIsAcknowledged ==
  [][\A h \in Handlers :
       (/\ hs[h].pc = "findQuote"
        /\ hs'[h] # hs[h]
        /\ ~hs'[h].dbError
        /\ \/ quotes[hs[h].qid].status \in {"none", "paid"}
           \/ ~users[quotes[hs[h].qid].userId].exists)
       => /\ hs'[h].pc = "done"
          /\ hs'[h].resp = 200
          /\ hs'[h].err = Null
          /\ hs'[h].log = <<>>
          /\ quotes' = quotes
          /\ users' = users
          /\ conversations' = conversations]_vars

\* An event naming a quote that does not exist has been acknowledged.
MissingQuoteWitness ==
  \E h \in Handlers :
    /\ VerifiedFor(h, 2)
    /\ quotes[2].status = "none"
    /\ hs[h].pc = "done" /\ hs[h].resp = 200 /\ hs[h].log = <<>>

\* C8: a handling that has marked its quote paid and has finished has sent the
\* confirmation exactly once and invoked fulfilment exactly once, after the
\* write, and was acknowledged.
PaidHandlingCompletes ==
  \A h \in Handlers :
    (hs[h].pc = "done" /\ Count(hs[h].log, "paid") > 0)
    => /\ Count(hs[h].log, "paid") = 1
       /\ Count(hs[h].log, "confirm") = 1
       /\ Count(hs[h].log, "certificate") = 1
       /\ SubSeq(hs[h].log, 1, 2) = <<"paid", "confirm">>
       /\ hs[h].resp = 200

\* A handling has paid a quote, confirmed, delivered the certificate and finished.
PaidHandlingWitness ==
  \E h \in Handlers :
    /\ hs[h].pc = "done"
    /\ hs[h].log = <<"paid", "confirm", "note", "certificate", "document">>
    /\ quotes[hs[h].qid].status = "paid"

\* C9: when certificate generation or document delivery fails in a handling, the
\* handling sends exactly one degraded-service message, as its last effect,
\* the quote is paid, and the handler is acknowledged with 200 and no error.
FulfilmentFailureIsContained ==
  \A h \in Handlers :
    hs[h].outcome \in {"certificateFailed", "documentFailed"}
    => /\ hs[h].pc \in {"degraded", "done"}
       /\ quotes[hs[h].qid].status = "paid"
       /\ hs[h].err = Null
       /\ hs[h].pc = "degraded" => Count(hs[h].log, "degraded") = 0
       /\ hs[h].pc = "done"
            => /\ Count(hs[h].log, "degraded") = 1
               /\ hs[h].log[Len(hs[h].log)] = "degraded"
               /\ hs[h].resp = 200

\* One handling failed to generate the certificate, another to deliver it.
FulfilmentFailureWitness ==
  \E g, h \in Handlers :
    /\ hs[g].outcome = "certificateFailed" /\ hs[g].pc = "done"
    /\ hs[h].outcome = "documentFailed" /\ hs[h].pc = "done"

\* A rule fires when its fact is present and compares as the rule says.
RuleFires(rule, facts) ==
  /\ facts[rule.key].present
  /\ \/ rule.condition = "lt" /\ facts[rule.key].value < rule.value
     \/ rule.condition = "gt" /\ facts[rule.key].value > rule.value
     \/ rule.condition = "eq" /\ facts[rule.key].value = rule.value
\* The running total after the first n rules, in declaration order
RECURSIVE TotalAfter(_, _, _)
TotalAfter(rules, facts, n) ==
  IF n = 0 THEN rules.baseRate
  ELSE LET total == TotalAfter(rules, facts, n - 1)
           rule == rules.factors[n]
       IN  IF ~RuleFires(rule, facts) THEN total
           ELSE IF rule.type = "add"
           THEN [n |-> total.n * rule.modifier.d + rule.modifier.n * total.d,
                 d |-> total.d * rule.modifier.d]
           ELSE [n |-> total.n * rule.modifier.n, d |-> total.d * rule.modifier.d]

\* C10: for a well-formed active product whose lookup is answered the premium is the rounded total of
\* the left fold over the rules in declaration order, starting from the base
\* amount: a firing rule adds its magnitude to, or multiplies it into, the
\* running total, every other rule leaves the total as it is.
PremiumIsLeftFold ==
  (/\ calc.pc = "done" /\ ~calc.dbError
   /\ products[calc.insuranceType].exists
   /\ products[calc.insuranceType].isActive
   /\ products[calc.insuranceType].pricingRules.hasBaseRate
   /\ products[calc.insuranceType].pricingRules.factorsIsArray)
  => LET rules == products[calc.insuranceType].pricingRules
         total == TotalAfter(rules, calc.details, Len(rules.factors))
     IN  /\ calc.result.ok
         /\ 2 * total.d * calc.result.premium <= 2 * total.n + total.d
         /\ 2 * total.n + total.d < 2 * total.d * (calc.result.premium + 1)

\* A premium computed from an additive and a multiplicative rule that both fire.
LeftFoldWitness ==
  /\ calc.pc = "done" /\ calc.result.ok /\ calc.insuranceType = "motor"
  /\ LET rules == products[calc.insuranceType].pricingRules IN
     /\ Len(rules.factors) = 2
     /\ rules.factors[1].type # rules.factors[2].type
     /\ \A i \in 1..2 : RuleFires(rules.factors[i], calc.details)

Priced ==
  /\ calc.pc = "done" /\ ~calc.dbError
  /\ products[calc.insuranceType].exists
  /\ products[calc.insuranceType].isActive
  /\ products[calc.insuranceType].pricingRules.hasBaseRate
  /\ products[calc.insuranceType].pricingRules.factorsIsArray
\* x rounded to the nearest integer is p, a tie going up
RoundsTo(x, p) ==
  /\ 2 * x.d * p <= 2 * x.n + x.d
  /\ 2 * x.n + x.d < 2 * x.d * (p + 1)
\* The rule set without the rules whose fact is not supplied
WithoutAbsent(rules, facts) ==
  LET Supplied(rule) == facts[rule.key].present
  IN  [rules EXCEPT !.factors = SelectSeq(rules.factors, Supplied)]

\* C12: the premium is the one the rule set gives once every rule whose fact
\* key is absent from the facts is removed from it, and the result is a premium,
\* not an error: such a rule leaves the running total alone.
AbsentFactIsSkipped ==
  Priced
  => LET rules == products[calc.insuranceType].pricingRules
         kept == WithoutAbsent(rules, calc.details)
     IN  /\ calc.result.ok
         /\ RoundsTo(TotalAfter(kept, calc.details, Len(kept.factors)),
                     calc.result.premium)

\* A premium computed with one fact missing for a rule and another rule firing.
AbsentFactWitness ==
  /\ Priced /\ calc.result.ok
  /\ LET rules == products[calc.insuranceType].pricingRules IN
     /\ \E i \in DOMAIN rules.factors : ~calc.details[rules.factors[i].key].present
     /\ \E i \in DOMAIN rules.factors : RuleFires(rules.factors[i], calc.details)

\* The sequence s from its last element to its first
Reversed(s) == [i \in 1..Len(s) |-> s[Len(s) + 1 - i]]

\* C13: when the rule set is one additive and one multiplicative rule and both
\* fire, the premium differs from the premium calculatePremium returns for the
\* same base amount and facts with the two rules declared in the other order.
OrderMatters ==
  LET product == products[calc.insuranceType]
      rules == product.pricingRules
      swapped == [product EXCEPT !.pricingRules.factors = Reversed(rules.factors)]
  IN  (/\ Priced
       /\ Len(rules.factors) = 2
       /\ {rules.factors[1].type, rules.factors[2].type} = {"add", "multiply"}
       /\ \A i \in 1..2 : RuleFires(rules.factors[i], calc.details))
      => /\ calc.result.ok
         /\ CalculatePremium(swapped, calc.details).ok
         /\ CalculatePremium(swapped, calc.details).premium # calc.result.premium

\* Base 60000 with (carYear lt 2010, add 10000) declared before (driverAge lt 25,
\* multiply 1.4), both firing: 98000, where the other order gives 94000.
OrderMattersWitness ==
  /\ Priced
  /\ LET rules == products[calc.insuranceType].pricingRules IN
     /\ rules.baseRate = [n |-> 60000, d |-> 1]
     /\ Len(rules.factors) = 2
     /\ rules.factors[1].type = "add" /\ rules.factors[1].modifier = [n |-> 10000, d |-> 1]
     /\ rules.factors[2].type = "multiply" /\ rules.factors[2].modifier = [n |-> 14, d |-> 10]
     /\ \A i \in 1..2 : RuleFires(rules.factors[i], calc.details)
  /\ calc.result.premium = 98000

\* The rule set of scenario A: base 60000, (driverAge lt 25, multiply 1.4), then
\* (carYear lt 2010, add 10000)
ScenarioRules(rules) ==
  /\ rules.hasBaseRate /\ rules.factorsIsArray
  /\ rules.baseRate = [n |-> 60000, d |-> 1]
  /\ rules.factors =
       <<[key |-> "driverAge", condition |-> "lt", value |-> 25,
          modifier |-> [n |-> 14, d |-> 10], type |-> "multiply"],
         [key |-> "carYear", condition |-> "lt", value |-> 2010,
          modifier |-> [n |-> 10000, d |-> 1], type |-> "add"]>>
\* The facts driverAge = age and carYear = year
Facts(age, year) ==
  [k \in {"driverAge", "carYear"} |->
     [present |-> TRUE, value |-> IF k = "driverAge" THEN age ELSE year]]

\* C14: scenario A: the scenario rule set with driverAge 22 and carYear 2008
\* gives the premium 94000.
ScenarioA ==
  (/\ Priced
   /\ ScenarioRules(products[calc.insuranceType].pricingRules)
   /\ calc.details = Facts(22, 2008))
  => calc.result = [ok |-> TRUE, premium |-> 94000, error |-> "null"]

\* Scenario A has been evaluated.
ScenarioAWitness ==
  /\ Priced
  /\ ScenarioRules(products[calc.insuranceType].pricingRules)
  /\ calc.details = Facts(22, 2008)
  /\ calc.result.ok

\* C15: scenario B: when the facts satisfy no rule's condition the premium is
\* the base amount, a whole number of currency units, itself; for the scenario
\* rule set with driverAge 30 and carYear 2020 it is 60000.
ScenarioB ==
  LET rules == products[calc.insuranceType].pricingRules IN
  (/\ Priced
   /\ \A i \in DOMAIN rules.factors : ~RuleFires(rules.factors[i], calc.details))
  => /\ calc.result.ok
     /\ calc.result.premium * rules.baseRate.d = rules.baseRate.n
     /\ (ScenarioRules(rules) /\ calc.details = Facts(30, 2020))
        => calc.result.premium = 60000

\* Scenario B has been evaluated: both facts supplied, neither rule fires.
ScenarioBWitness ==
  /\ Priced
  /\ ScenarioRules(products[calc.insuranceType].pricingRules)
  /\ calc.details = Facts(30, 2020)
  /\ calc.result.premium = 60000

\* The final running total of the call held by calc, as a fraction n/d, d > 0
FinalTotal ==
  LET rules == products[calc.insuranceType].pricingRules
  IN  TotalAfter(rules, calc.details, Len(rules.factors))
\* The whole units of a fraction, and twice its remainder over its denominator
Whole(x) == x.n \div x.d
TwiceRemainder(x) == 2 * (x.n - Whole(x) * x.d)

\* C16: the premium is a whole number obtained from the final running total by
\* half-up rounding: a fractional part of exactly one half or more goes up to
\* the next whole unit, a smaller one goes down.
RoundsHalfUp ==
  Priced
  => /\ calc.result.ok
     /\ calc.result.premium \in Int
     /\ TwiceRemainder(FinalTotal) = FinalTotal.d
          => calc.result.premium = Whole(FinalTotal) + 1
     /\ TwiceRemainder(FinalTotal) < FinalTotal.d
          => calc.result.premium = Whole(FinalTotal)
     /\ TwiceRemainder(FinalTotal) > FinalTotal.d
          => calc.result.premium = Whole(FinalTotal) + 1

\* A positive final total with fractional part exactly one half (5 * 1.5 = 7.5)
\* has been rounded up to 8.
HalfUpWitness ==
  /\ Priced
  /\ TwiceRemainder(FinalTotal) = FinalTotal.d
  /\ FinalTotal.n = 75 * (FinalTotal.d \div 10)
  /\ FinalTotal.d % 10 = 0
  /\ calc.result.premium = 8

\* C17: a call for a product type without a row, for an inactive product, or
\* for a product whose rule set has no numeric base amount or whose rules are
\* not a sequence returns an error value with its tag and no premium; a lookup
\* that rejects is caught and returned as an error value as well.
UnpriceableGivesError ==
  LET product == products[calc.insuranceType]
      unknown == ~product.exists \/ ~product.isActive
      malformed == ~product.pricingRules.hasBaseRate
                     \/ ~product.pricingRules.factorsIsArray
  IN  calc.pc = "done"
      => /\ calc.dbError
            => /\ ~calc.result.ok
               /\ calc.result.error =
                    "An unexpected error occurred during premium calculation."
         /\ (~calc.dbError /\ unknown)
            => /\ ~calc.result.ok
               /\ calc.result.error = "Invalid insurance type specified."
         /\ (~calc.dbError /\ ~unknown /\ malformed)
            => /\ ~calc.result.ok
               /\ calc.result.error =
                    "Pricing rules are not configured correctly for this product."

\* A call for an active product whose rule set has no numeric base amount has
\* returned the configuration error.
UnpriceableWitness ==
  /\ calc.pc = "done" /\ ~calc.dbError
  /\ products[calc.insuranceType].exists
  /\ products[calc.insuranceType].isActive
  /\ ~products[calc.insuranceType].pricingRules.hasBaseRate
  /\ ~calc.result.ok

\* C18: scenario D: when the product lookup of a generate_payment_link call
\* finds no product of the requested type, the dialogue turn goes on with the
\* tool's result and no Quote is created.
UnknownProductContinuesTurn ==
  [][\A c \in Cycles :
       (/\ cs[c].pc = "productFind"
        /\ cs[c].call.name = "generate_payment_link"
        /\ ~products[cs[c].call.insuranceType].exists
        /\ cs'[c] # cs[c])
       => /\ cs'[c].pc = "continueTurn"
          /\ quotes' = quotes]_vars

\* C19: when a generate_payment_link call fails at its product lookup, the
\* user's row is the one the cycle read when it began, no Quote has been
\* created and the cycle has written no history.
NoPartialState ==
  [][\A c \in Cycles :
       (/\ cs[c].pc = "productFind"
        /\ ~products[cs[c].call.insuranceType].exists
        /\ cs'[c] # cs[c])
       => /\ users'[cs[c].addr] = cs[c].user
          /\ quotes' = quotes
          /\ Count(cs'[c].log, "quoteCreate") = 0
          /\ Count(cs'[c].log, "persist") = 0]_vars

\* C20: when the checkout session cannot be created for a Quote that was just
\* created, the Quote stays stored with status quoted: the failing step changes
\* no Quote, and no later step of a message cycle removes a Quote or moves it
\* out of quoted.  (A later request obtaining a link is the witness.)
FailedLinkKeepsQuote ==
  [][/\ \A c \in Cycles :
          (cs[c].pc = "createCheckout" /\ cs'[c].pc = "catch")
          => /\ quotes' = quotes
             /\ quotes'[cs[c].quoteId].status = "quoted"
     /\ \A q \in QuoteIds :
          quotes[q].status = "quoted" => quotes'[q].status = "quoted"]_vars

\* A cycle created a Quote and failed to create its checkout session; a later
\* cycle obtained a payment link, and the first Quote is still quoted.
LaterLinkWitness ==
  \E c, d \in Cycles :
    /\ c < d
    /\ cs[c].pc = "done"
    /\ Count(cs[c].log, "quoteCreate") = 1 /\ Count(cs[c].log, "checkout") = 0
    /\ Count(cs[d].log, "checkout") = 1
    /\ quotes[1].status = "quoted" /\ quotes[2].status = "quoted"

\* The turns of a history, as a set
Turns(history) == {history[i] : i \in DOMAIN history}
OurTools == {"calculate_premium", "generate_payment_link"}

\* C21: a function call whose name is none of our tools does not fail the turn.
\* The first response leads straight to the second model call with the result
\* { error: 'Unknown function' }; from there the cycle can only go on to persist
\* the history with the function response and the final reply in it and to send
\* the reply (or fail because the model or the database does), and none of its
\* steps changes a Quote or a User.
UnknownToolCompletesTurn ==
  [][\A c \in Cycles :
       LET before == cs[c]
           after == cs'[c]
           unknown(rec) == rec.call.name \notin OurTools \cup {Null}
       IN  /\ (before.pc = "startTurn" /\ unknown(after))
                => /\ after.pc = "continueTurn"
                   /\ after.toolResult.kind = "error"
                   /\ after.toolResult.text = "Unknown function"
           /\ (unknown(before) /\ before.pc = "continueTurn")
                => \/ after.pc = "catch"
                   \/ /\ after.pc = "persist"
                      /\ after.hist = before.hist \o <<"functionResponse", "model: Hello">>
           /\ (unknown(before) /\ before.pc = "persist")
                => \/ after.pc = "catch" /\ conversations' = conversations
                   \/ /\ after.pc = "reply"
                      /\ conversations'[before.addr].history = before.hist
           /\ (unknown(before) /\ before.pc = "reply")
                => after.pc = "done" /\ after.log = Append(before.log, "reply")
           /\ (unknown(before) \/ unknown(after))
                => quotes' = quotes /\ users' = users]_vars

\* A cycle with a function call and no tool effect has completed: the history
\* with the function response is stored, the reply is sent.
UnknownToolWitness ==
  \E c \in Cycles :
    /\ cs[c].pc = "done"
    /\ cs[c].log = <<"persist", "reply">>
    /\ "functionResponse" \in Turns(conversations[cs[c].addr].history)
    /\ \A q \in QuoteIds : quotes[q] = NoQuote

\* C22: a failure inside a message cycle ends in the top-level catch, which
\* sends the retry prompt and returns normally, and the stored history is what
\* it was when the cycle began: the step that fails writes no history, a cycle
\* that is in the catch block has not written its history before, the only step
\* of a cycle that changes a stored history is its successful history update,
\* and from the catch block the cycle ends with the retry prompt as its last
\* and only message.
FailureLeavesHistory ==
  [][/\ \A c \in Cycles :
          /\ (cs[c].pc # "catch" /\ cs'[c].pc = "catch")
               => \A a \in Addrs : conversations'[a].history = conversations[a].history
          /\ cs'[c].pc = "catch"
               => Count(cs'[c].log, "persist") = 0 /\ Count(cs'[c].log, "reply") = 0
          /\ cs[c].pc = "catch"
               => /\ cs'[c].pc = "done"
                  /\ cs'[c].log = Append(cs[c].log, "retryPrompt")
                  /\ conversations' = conversations
     /\ \A a \in Addrs :
          conversations'[a].history # conversations[a].history
            => \E c \in Cycles :
                 cs[c].addr = a /\ cs[c].pc = "persist" /\ cs'[c].pc = "reply"]_vars

\* After a turn was stored, a later cycle ran a tool, failed and sent the retry
\* prompt; the stored history still holds the earlier turn.
FailedCycleWitness ==
  \E c \in Cycles :
    /\ cs[c].pc = "done"
    /\ cs[c].log = <<"calculatePremium", "retryPrompt">>
    /\ Len(conversations[cs[c].addr].history) = 2

\* The instruction text for the seeded motor product, written out
MotorInstruction ==
  "(System Instruction: [driverFullName,driverAge,carMake,carModel,carYear])"

\* C23 (scenario C): in a new conversation (nothing stored) with an active motor
\* product, a message that mentions a car puts the instruction that lists the
\* motor product's required inputs into the history before the first model call:
\* unless the product lookup itself rejects, injectDynamicInstructions hands on
\* a history that holds the instruction, and that is the history the chat is
\* started with.
ScenarioC ==
  [][\A c \in Cycles :
       (/\ cs[c].pc = "inject"
        /\ cs[c].keyword
        /\ cs[c].stored = <<>>
        /\ products["motor"].exists /\ products["motor"].isActive
        /\ cs'[c].pc # "catch")
       => /\ cs'[c].pc = "startTurn"
          /\ MotorInstruction \in Turns(cs'[c].hist)]_vars

\* The chat of a new conversation is about to be started with the instruction
\* in its history (behind the missing first turn of the empty history).
ScenarioCWitness ==
  \E c \in Cycles :
    /\ cs[c].pc = "startTurn"
    /\ conversations[cs[c].addr].history = <<>>
    /\ cs[c].hist = <<"undefined", MotorInstruction>>

\* A cycle that has begun and has not returned
InFlight(c) == cs[c].pc \notin {"idle", "done"}
\* A cycle that has returned after sending the model's reply
Replied(c) == cs[c].pc = "done" /\ Count(cs[c].log, "reply") = 1

\* C24: two messages of one user are never processed at the same time, so that
\* once two cycles of that user have both ended with their reply sent, the
\* stored history holds the user turn of each.
OneCyclePerUser ==
  \A c, d \in Cycles :
    (c # d /\ cs[c].addr = cs[d].addr)
    => /\ ~(InFlight(c) /\ InFlight(d))
       /\ (Replied(c) /\ Replied(d))
            => Count(conversations[cs[c].addr].history, "user") >= 2

\* C25: there is never more than one User row per address nor more than one
\* Conversation row per user, a Conversation belongs to an existing User, and
\* the User a cycle works with is the one row of its address - also when two
\* cycles for an address nobody has seen run their lookups and inserts
\* interleaved.
OneUserOneConversation ==
  /\ \A a \in Addrs :
       /\ users[a].rows <= 1
       /\ conversations[a].rows <= 1
       /\ users[a].exists <=> users[a].rows = 1
       /\ conversations[a].exists <=> conversations[a].rows = 1
       /\ conversations[a].rows <= users[a].rows
  /\ \A c \in Cycles :
       cs[c].user.exists
         => cs[c].user.whatsappId = cs[c].addr /\ users[cs[c].addr].rows = 1

\* Two first contacts interleave: one cycle found no User and is about to
\* insert one, while the other cycle has inserted the row already.
RacingCreateWitness ==
  \E c, d \in Cycles :
    /\ c # d
    /\ cs[c].pc = "userCreate"
    /\ cs[d].user.exists /\ cs[d].addr = cs[c].addr
    /\ users[cs[c].addr].rows = 1

\* C26: executing the calculate_premium tool changes no stored state: the step
\* leaves the User, Quote and Product tables (and the stored histories) as they
\* were and only produces the tool's result, a premium or an error.
PremiumToolReadsOnly ==
  [][\A c \in Cycles :
       (cs[c].pc = "calculatePremium" /\ cs'[c] # cs[c])
       => /\ users' = users
          /\ quotes' = quotes
          /\ products' = products
          /\ conversations' = conversations
          /\ cs'[c].pc = "continueTurn"
          /\ cs'[c].toolResult.kind \in {"premium", "error"}]_vars

\* The tool has answered with the premium of scenario A and the catalogue is
\* the seeded one, no Quote exists.
PremiumToolWitness ==
  \E c \in Cycles :
    /\ cs[c].pc = "continueTurn"
    /\ cs[c].call.name = "calculate_premium"
    /\ cs[c].toolResult.kind = "premium" /\ cs[c].toolResult.premium = 94000
    /\ Seeded
    /\ \A q \in QuoteIds : quotes[q] = NoQuote

\* C27: addSystemMessageToConversation appends one system note at the end of
\* the user's stored history and nothing else. Its lookup step changes no
\* stored turn; its write step either stores the old history with the note
\* appended, all other histories untouched, or (the update rejected) stores
\* nothing; in both cases the caller goes on with its next step without an
\* error, no message is sent and no message cycle (hence no model call) moves.
NoteIsAppended ==
  [][\A h \in Handlers :
       LET a == hs[h].quote.userId IN
       /\ (hs[h].pc \in NoteLookupSteps /\ hs'[h] # hs[h])
            => /\ \A b \in Addrs : conversations'[b].history = conversations[b].history
               /\ hs'[h].log = hs[h].log
               /\ hs'[h].err = Null
               /\ cs' = cs
       /\ (hs[h].pc = "noteWrite" /\ hs'[h] # hs[h])
            => /\ \/ /\ conversations'[a].history = Append(conversations[a].history, "note")
                     /\ hs'[h].log = Append(hs[h].log, "note")
                  \/ /\ conversations'[a].history = conversations[a].history
                     /\ hs'[h].log = hs[h].log
               /\ \A b \in Addrs \ {a} : conversations'[b] = conversations[b]
               /\ hs'[h].pc = "certificate"
               /\ hs'[h].err = Null
               /\ cs' = cs]_vars

\* The note of a payment stands behind the four turns of the cycle that
\* created the payment link.
NoteAppendedWitness ==
  \E h \in Handlers :
    /\ hs[h].pc = "certificate"
    /\ Count(hs[h].log, "note") = 1
    /\ conversations[hs[h].quote.userId].history
         = <<"user", "functionCall", "functionResponse", "model: Hello", "note">>

\* C28: a tool is dispatched exactly when the first response carries exactly one
\* function call; otherwise the first response is final and the cycle goes on to
\* store the history. So a cycle that leaves the first model call either has a
\* call to dispatch and the response had one call, or has none and persists.
ToolIffOneInvocation ==
  [][\A c \in Cycles :
       (cs[c].pc = "startTurn" /\ cs'[c].pc \notin {"startTurn", "catch"})
       => /\ (cs'[c].call.name # Null) <=> (cs'[c].calls = 1)
          /\ (cs'[c].call.name = Null) => cs'[c].pc = "persist"
          /\ Count(cs'[c].log, "calculatePremium") + Count(cs'[c].log, "userUpdate") = 0]_vars

\* C29: no stored history holds a tool invocation that is still waiting for its
\* result: in every stored history each function-call turn is directly followed
\* by the function-response turn and then by a reply of the model.
ToolTurnsAnswered ==
  \A a \in Addrs :
    LET H == conversations[a].history IN
    \A i \in DOMAIN H :
      H[i] = "functionCall"
        => /\ i + 2 <= Len(H)
           /\ H[i + 1] = "functionResponse"
           /\ H[i + 2] = "model: Hello"

\* One cycle has stored a complete tool turn; another one failed after its
\* tool had run (at the second model call or at the history update) and ended
\* with the retry prompt.
AnsweredToolWitness ==
  \E c \in Cycles :
    /\ cs[c].pc = "done"
    /\ cs[c].log = <<"calculatePremium", "retryPrompt">>
    /\ "functionCall" \in Turns(conversations[cs[c].addr].history)

\* C30: the history is stored before the reply goes out. A reply is sent only by
\* a cycle that has stored its history, the history update that succeeds stores
\* exactly the history of the chat and leads to the reply, the one that fails
\* stores nothing and leads to the catch block, from where the retry prompt is
\* the only message; no cycle sends both.
PersistBeforeReply ==
  [][\A c \in Cycles :
       LET sent(e) == Count(cs'[c].log, e) IN
       /\ sent("reply") > Count(cs[c].log, "reply")
            => cs[c].pc = "reply" /\ Count(cs[c].log, "persist") = 1
       /\ (cs[c].pc = "persist" /\ cs'[c] # cs[c])
            => \/ /\ cs'[c].pc = "reply"
                  /\ conversations'[cs[c].addr].history = cs[c].hist
                  /\ sent("persist") = 1 /\ sent("reply") = 0
               \/ /\ cs'[c].pc = "catch"
                  /\ conversations' = conversations
                  /\ sent("persist") = 0 /\ sent("reply") = 0
       /\ cs[c].pc = "catch"
            => sent("retryPrompt") = 1 /\ sent("reply") = 0
       /\ sent("reply") + sent("retryPrompt") <= 1]_vars

\* A cycle has stored the user turn and the reply, and then sent the reply.
PersistedThenRepliedWitness ==
  \E c \in Cycles :
    /\ cs[c].pc = "done"
    /\ cs[c].log = <<"persist", "reply">>
    /\ conversations[cs[c].addr].history = <<"user", "model: Hello">>

\* ------------------------------------------------------------- claims C31..C40
IsPrefix(s, t) == Len(s) <= Len(t) /\ SubSeq(t, 1, Len(s)) = s

\* C31: with the messages of one customer processed one after the other, a
\* stored history only grows at its end: whenever a history is persisted, the
\* history that was stored before is a prefix of the new one, no earlier turn
\* is removed, rewritten or moved.
HistoryOnlyAppended ==
  [][\A a \in Addrs :
       conversations'[a].history # conversations[a].history
         => IsPrefix(conversations[a].history, conversations'[a].history)]_vars

\* C37: whenever the instruction is injected (a stored history of 0, 1 or 2
\* turns), the history handed to the first model call has exactly one turn
\* more than the stored one, every stored turn is in it in the stored order,
\* and none of its elements is a hole.
InjectedHistoryWellFormed ==
  [][\A c \in Cycles :
       /\ cs[c].pc = "inject" /\ cs'[c].pc = "startTurn"
       /\ cs'[c].hist # cs[c].stored
       => /\ Len(cs[c].stored) \in 0..2
          /\ Len(cs'[c].hist) = Len(cs[c].stored) + 1
          /\ \E i \in DOMAIN cs'[c].hist :
               /\ cs'[c].hist[i] = MotorInstruction
               /\ SubSeq(cs'[c].hist, 1, i - 1) \o SubSeq(cs'[c].hist, i + 1, Len(cs'[c].hist))
                    = cs[c].stored
          /\ "undefined" \notin Turns(cs'[c].hist)]_vars

\* C39: a system note appended while a message cycle of the same customer is
\* running is not lost and loses nothing: once the handler has written its
\* note and the cycle has persisted its history, the stored history holds the
\* note and the cycle's user turn, however their reads and writes interleave.
NoHistoryUpdateLost ==
  \A h \in Handlers, c \in Cycles :
    /\ hs[h].pc = "done" /\ Count(hs[h].log, "note") = 1
    /\ cs[c].pc = "done" /\ Count(cs[c].log, "persist") = 1
    /\ quotes[hs[h].qid].userId = cs[c].addr
    => /\ SystemNote \in Turns(conversations[cs[c].addr].history)
       /\ "user" \in Turns(conversations[cs[c].addr].history)

\* The place of a step in handleStripeWebhook
StepRank(e) ==
  CASE e = "paid" -> 1 [] e = "confirm" -> 2 [] e = "note" -> 3
    [] e = "certificate" -> 4 [] e = "document" -> 5 [] e = "degraded" -> 6

\* C40: the steps of handling one payment event come in a fixed order: the
\* Quote is stored as paid, then the confirmation is sent, then the system note
\* is appended, then the certificate is generated, then the document is
\* delivered; the degraded-service message comes only after a fulfilment step
\* has failed; and a handler that has sent a message, written a note or asked
\* for a certificate has stored its Quote as paid before.
PaymentStepsOrdered ==
  \A h \in Handlers :
    LET log == hs[h].log IN
    /\ \A i, j \in DOMAIN log : i < j => StepRank(log[i]) < StepRank(log[j])
    /\ Count(log, "degraded") = 1
         => /\ Count(log, "certificate") = 1
            /\ hs[h].outcome \in {"certificateFailed", "documentFailed"}
    /\ Count(log, "document") = 1 => Count(log, "certificate") = 1
    /\ log # <<>> => /\ log[1] = "paid"
                     /\ quotes[hs[h].qid].status = "paid"

PaymentStepsWitness ==
  \E h \in Handlers :
    /\ hs[h].pc = "done"
    /\ hs[h].log = <<"paid", "confirm", "note", "certificate", "document", "degraded">>

\* C32: the motor instruction is one-time. Whatever messages and system notes
\* a customer's conversation has seen, its stored history holds the instruction
\* at most once; and a cycle injects it only when the history it loaded has at
\* most 2 turns and the message names the product ('motor' or 'car').
InstructionOneTime ==
  /\ [](\A a \in Addrs : Count(conversations[a].history, MotorInstruction) <= 1)
  /\ [][\A c \in Cycles :
          /\ cs[c].pc = "inject" /\ cs'[c].pc = "startTurn"
          /\ Count(cs'[c].hist, MotorInstruction) > Count(cs[c].stored, MotorInstruction)
          => Len(cs[c].stored) <= 2 /\ cs[c].keyword]_vars

\* Two answered messages and a payment note, the instruction in between.
InstructionOnceWitness ==
  \E a \in Addrs :
    LET H == conversations[a].history IN
    /\ Count(H, MotorInstruction) = 1
    /\ Count(H, SystemNote) = 1
    /\ Count(H, "user") = 2
    /\ \A c \in ChatCycles : cs[c].pc = "done"

\* C34: every message cycle that has started comes to its end, and when it
\* has, it has attempted exactly one outbound message: the reply or the retry
\* prompt, never both and never none.
CycleEndsWithOneMessage ==
  \A c \in ChatCycles :
    (cs[c].pc \notin {"idle", "done"})
      ~> (/\ cs[c].pc = "done"
          /\ Count(cs[c].log, "reply") + Count(cs[c].log, "retryPrompt") = 1)

\* Two cycles at their end, one answered with the reply, one with the retry prompt.
OneMessageWitness ==
  \E c, d \in ChatCycles :
    /\ cs[c].pc = "done" /\ cs[d].pc = "done"
    /\ Count(cs[c].log, "reply") = 1 /\ Count(cs[c].log, "retryPrompt") = 0
    /\ Count(cs[d].log, "reply") = 0 /\ Count(cs[d].log, "retryPrompt") = 1

\* C38: generate_payment_link for a product that exists but is not active
\* creates no Quote and asks for no checkout link: no Quote row is of an
\* inactive product, and no cycle is at the checkout request for one.
NoQuoteForInactiveProduct ==
  /\ \A q \in QuoteIds :
       quotes[q].status # "none" => products[quotes[q].type].isActive
  /\ \A c \in Cycles :
       cs[c].pc = "createCheckout"
         => products[cs[c].call.insuranceType].isActive

\* C35: the premium stored in a Quote is what the Rule Engine computes for the
\* rule set of the Quote's product and the fact map stored in the Quote; and
\* the amount of a checkout request is the stored premium of its Quote, rounded
\* to the nearest whole unit.
StoredPremiumIsComputed ==
  /\ \A q \in QuoteIds :
       quotes[q].status # "none"
         => LET r == CalculatePremium(products[quotes[q].type], quotes[q].details)
            IN  r.ok /\ quotes[q].premium.n = r.premium * quotes[q].premium.d
  /\ \A c \in Cycles :
       cs[c].session.quoteId # NoQuoteId
         => RoundsTo(quotes[cs[c].session.quoteId].premium, cs[c].session.unit_amount)

\* C36: a checkout request carries the identifier of the Quote that the same
\* tool call has just created; handling a verified payment event changes at
\* most the Quote named in the event's metadata and leaves every other Quote as
\* it was; and a verified event of another type, or without a quote
\* identifier, is acknowledged with 200 while no table changes and nothing is
\* sent.
PaymentCorrelated ==
  /\ [](\A c \in Cycles :
          cs[c].session.quoteId # NoQuoteId
            => /\ cs[c].session.quoteId = cs[c].quoteId
               /\ Count(cs[c].log, "quoteCreate") = 1
               /\ quotes[cs[c].quoteId].userId = cs[c].addr)
  /\ [][\A q \in QuoteIds :
          quotes[q].status # "none" /\ quotes'[q] # quotes[q]
            => \E h \in Handlers :
                 /\ hs[h].sig = "good" /\ hs[h].type = "checkout.session.completed"
                 /\ hs[h].qid = q /\ hs'[h] # hs[h]
                 /\ \A r \in QuoteIds \ {q} : quotes'[r] = quotes[r]]_vars
  /\ [][\A h \in Handlers :
          /\ hs'[h] # hs[h] /\ hs'[h].sig = "good"
          /\ hs'[h].type # "checkout.session.completed" \/ hs'[h].qid = NoQuoteId
          => /\ hs'[h].pc = "done" /\ hs'[h].resp = 200 /\ hs'[h].log = <<>>
             /\ UNCHANGED <<quotes, users, conversations, products>>]_vars

\* A checkout asked for a new Quote while the payment of another one has been
\* handled, and a verified event without a quote identifier answered.
CorrelatedWitness ==
  /\ \E c \in Cycles, h \in Handlers :
       /\ cs[c].session.quoteId \in QuoteIds
       /\ quotes[cs[c].session.quoteId].status = "quoted"
       /\ hs[h].pc = "done" /\ Count(hs[h].log, "paid") = 1
       /\ hs[h].qid # cs[c].session.quoteId
  /\ \E g \in Handlers :
       hs[g].pc = "done" /\ hs[g].sig = "good" /\ hs[g].qid = NoQuoteId

\* C33: what is sent as the reply is the model's final text after
\* post-processing: a text that contains 'i cannot help' in any letter case is
\* replaced as a whole by the refusal template, also when it contains 'premium
\* is' as well; otherwise a text that contains 'premium is' in any letter case
\* is sent with the underwriting note behind it; any other text is sent as it
\* is. The history persisted before the send ends with the model's own text.
ReplyPostProcessed ==
  /\ [][\A c \in PaymentCycles :
          cs[c].pc = "reply" /\ cs'[c].pc = "done"
          => LET text == cs[c].text
                 refuses == \E i \in DOMAIN text : text[i] \in {"I cannot help", "i cannot help"}
                 prices == \E i \in DOMAIN text : text[i] \in {"Premium is", "premium is"}
             IN  cs'[c].sent = IF refuses THEN TrustAndSafetyPrompt
                               ELSE IF prices THEN Sentence(text, 1) \o UnderwritingNote
                               ELSE Sentence(text, 1)]_vars
  /\ [](\A c \in PaymentCycles :
          cs[c].pc = "reply"
            => LET H == conversations[cs[c].addr].history
               IN  H # <<>> /\ H[Len(H)] = "model: " \o Sentence(cs[c].text, 1))

\* A reply that names a premium and refuses: the template has been sent, the
\* history holds the model's words.
RefusalWinsWitness ==
  \E c \in PaymentCycles :
    /\ cs[c].pc = "done"
    /\ cs[c].sent = TrustAndSafetyPrompt
    /\ conversations[cs[c].addr].history = <<"user", "model: Premium is I cannot help">>

====
